---------------------------- MODULE Spec2Model ----------------------------
(***************************************************************************)
(* Guest count check: the Express backend (src/app/server.js).             *)
(*                                                                         *)
(* Every inbound HTTP request is a little process: the authentication      *)
(* middleware, the date normalizer, the paginated fetch against the        *)
(* upstream commerce API, the guest-count filter, the refinement and the   *)
(* export.  A step of the model is one synchronous stretch of a handler,   *)
(* from one `await` to the next.                                           *)
(*                                                                         *)
(* Text is modelled as a sequence of one-character strings, so that the    *)
(* regular expression and the date parser read characters.  A JavaScript   *)
(* value that may be undefined or null is a tagged record.                 *)
(***************************************************************************)
EXTENDS Integers, Sequences, FiniteSets, TLC

(***************************************************************************)
(* JavaScript values                                                       *)
(***************************************************************************)
Undefined == [t |-> "undefined"]
Null == [t |-> "null"]
Num(n) == [t |-> "number", v |-> n]
Text(s) == [t |-> "string", v |-> s]

\* ToBoolean: undefined, null, 0 and "" are falsy.
Truthy(x) ==
    CASE x.t = "undefined" -> FALSE
      [] x.t = "null" -> FALSE
      [] x.t = "number" -> x.v # 0
      [] x.t = "string" -> x.v # << >>
      [] OTHER -> TRUE

(***************************************************************************)
(* Date Normalizer: formatDate                                             *)
(***************************************************************************)
Digits == {"0", "1", "2", "3", "4", "5", "6", "7", "8", "9"}

DigitVal(c) ==
    CASE c = "0" -> 0 [] c = "1" -> 1 [] c = "2" -> 2 [] c = "3" -> 3
      [] c = "4" -> 4 [] c = "5" -> 5 [] c = "6" -> 6 [] c = "7" -> 7
      [] c = "8" -> 8 [] c = "9" -> 9

DigitChar(n) ==
    CASE n = 0 -> "0" [] n = 1 -> "1" [] n = 2 -> "2" [] n = 3 -> "3"
      [] n = 4 -> "4" [] n = 5 -> "5" [] n = 6 -> "6" [] n = 7 -> "7"
      [] n = 8 -> "8" [] n = 9 -> "9"

\* The value of the digits s[i..j].
RECURSIVE NumAt(_, _, _)
NumAt(s, i, j) ==
    IF j < i THEN 0 ELSE 10 * NumAt(s, i, j - 1) + DigitVal(s[j])

AllDigits(s, idx) == \A i \in idx : s[i] \in Digits

\* dateStr.match(/^\d{4}-\d{2}-\d{2}$/)
MatchesCanonical(s) ==
    /\ Len(s) = 10
    /\ s[5] = "-" /\ s[8] = "-"
    /\ AllDigits(s, {1, 2, 3, 4, 6, 7, 9, 10})

\* String(n) for a number n >= 0: decimal, no padding.
RECURSIVE NumToText(_)
NumToText(n) ==
    IF n < 10 THEN <<DigitChar(n)>>
    ELSE NumToText(n \div 10) \o <<DigitChar(n % 10)>>

\* String(n).padStart(2, '0'), n >= 0
PadStart2(n) == IF n < 10 THEN <<"0">> \o NumToText(n) ELSE NumToText(n)

\* Days since 1970-01-01 of a civil date (MakeDay: a day past the end of its
\* month runs over into the next month).  yy: the year counted from March;
\* mp: the month counted from March.
DaysFromMarchYear(yy, mp, d) ==
    (yy \div 400) * 146097
    + (yy % 400) * 365 + (yy % 400) \div 4 - (yy % 400) \div 100
    + (153 * mp + 2) \div 5 + d - 1
    - 719468

DaysFromCivil(y, m, d) ==
    DaysFromMarchYear(IF m <= 2 THEN y - 1 ELSE y,
                      IF m > 2 THEN m - 3 ELSE m + 9,
                      d)

\* The civil date of a day number: getUTCFullYear, getUTCMonth() + 1, getUTCDate.
CivilOfMonth(y0, doy, mp) ==
    [year |-> y0 + (IF mp < 10 THEN 0 ELSE 1),
     month |-> IF mp < 10 THEN mp + 3 ELSE mp - 9,
     day |-> doy - (153 * mp + 2) \div 5 + 1]

CivilOfDayOfYear(y0, doy) == CivilOfMonth(y0, doy, (5 * doy + 2) \div 153)

CivilOfYearOfEra(era, doe, yoe) ==
    CivilOfDayOfYear(yoe + era * 400,
                     doe - (365 * yoe + yoe \div 4 - yoe \div 100))

CivilOfDayOfEra(era, doe) ==
    CivilOfYearOfEra(era, doe,
        (doe - doe \div 1460 + doe \div 36524 - doe \div 146096) \div 365)

CivilFromDays(z) ==
    CivilOfDayOfEra((z + 719468) \div 146097, (z + 719468) % 146097)

MinutesPerDay == 1440

NaN == [valid |-> FALSE, minutes |-> 0]

\* YYYY-MM-DDTHH:mm:ssZ or YYYY-MM-DDTHH:mm:ss+HH:mm
HasDateTimeShape(s) ==
    /\ Len(s) \in {20, 25}
    /\ s[5] = "-" /\ s[8] = "-" /\ s[11] = "T"
    /\ s[14] = ":" /\ s[17] = ":"
    /\ AllDigits(s, {1, 2, 3, 4, 6, 7, 9, 10, 12, 13, 15, 16, 18, 19})
    /\ IF Len(s) = 20 THEN s[20] = "Z"
       ELSE /\ s[20] \in {"+", "-"}
            /\ s[23] = ":"
            /\ AllDigits(s, {21, 22, 24, 25})

\* The instant of the fields, in minutes since the epoch; offset: the zone's
\* minutes east of UTC.
InstantOf(y, mo, d, h, mi, sec, offset) ==
    IF /\ mo \in 1..12 /\ d \in 1..31
       /\ h \in 0..23 /\ mi \in 0..59 /\ sec \in 0..59
    THEN [valid |-> TRUE,
          minutes |-> DaysFromCivil(y, mo, d) * MinutesPerDay + h * 60 + mi - offset]
    ELSE NaN

\* The zone of a date-time text of 25 characters, in minutes east of UTC.
ZoneOffset(sign, oh, om) ==
    IF oh \in 0..23 /\ om \in 0..59
    THEN [valid |-> TRUE, minutes |-> (IF sign = "-" THEN -1 ELSE 1) * (oh * 60 + om)]
    ELSE NaN

WithZone(s, zone) ==
    IF ~zone.valid THEN NaN
    ELSE InstantOf(NumAt(s, 1, 4), NumAt(s, 6, 7), NumAt(s, 9, 10),
                   NumAt(s, 12, 13), NumAt(s, 15, 16), NumAt(s, 18, 19),
                   zone.minutes)

\* new Date(text): the ECMAScript date-time string format with an explicit
\* zone.  Any other text of InputTexts is text no parser accepts: NaN.
ParseDate(s) ==
    IF ~HasDateTimeShape(s) THEN NaN
    ELSE IF Len(s) = 20 THEN WithZone(s, [valid |-> TRUE, minutes |-> 0])
    ELSE WithZone(s, ZoneOffset(s[20], NumAt(s, 21, 22), NumAt(s, 24, 25)))

\* `${year}-${month}-${day}`
RenderCivil(c) ==
    NumToText(c.year) \o <<"-">> \o PadStart2(c.month) \o <<"-">> \o PadStart2(c.day)

\* The UTC fields of the instant, rendered.
RenderUTC(minutes) == RenderCivil(CivilFromDays(minutes \div MinutesPerDay))

\* An Error: its message is a fixed text and the value interpolated into it.
Err(text, arg) == [message |-> [text |-> text, arg |-> arg], response |-> Undefined]

\* formatDate past the pattern test: d is new Date(date).
FormatParsed(date, d) ==
    IF ~d.valid
    THEN [ok |-> FALSE, error |-> Err("Failed to format date: ", date)]
    ELSE [ok |-> TRUE, value |-> RenderUTC(d.minutes)]

\* formatDate(date), date a string: [ok, value] or [ok, error] when it throws.
formatDate(date) ==
    IF MatchesCanonical(date) THEN [ok |-> TRUE, value |-> date]
    ELSE FormatParsed(date, ParseDate(date))

\* Y-MM-DD with a year of other than four digits: what `${year}-${month}-${day}`
\* is for a year below 1000 or above 9999.
HasLooseDateShape(s) ==
    /\ Len(s) \in {9, 11}
    /\ s[Len(s) - 5] = "-" /\ s[Len(s) - 2] = "-"
    /\ AllDigits(s, (1..Len(s)) \ {Len(s) - 5, Len(s) - 2})

\* The zones the server may run in, in minutes east of UTC.
LocalZones == {-300, 0, 330}

\* new Date(text) for a text of the loose shape.  The text is not of the
\* ECMAScript format, so what the parser makes of it is up to the engine:
\* nothing (NaN), or that day's midnight in the server's local zone.
ParseLoose(s) ==
    {NaN} \cup
    {InstantOf(NumAt(s, 1, Len(s) - 6), NumAt(s, Len(s) - 4, Len(s) - 3),
               NumAt(s, Len(s) - 1, Len(s)), 0, 0, 0, zone) : zone \in LocalZones}

\* What formatDate(date) may give, over the engines and zones: formatDate's
\* own result for every text but those of the loose shape.
formatDateOutcomes(date) ==
    IF MatchesCanonical(date) \/ ~HasLooseDateShape(date) THEN {formatDate(date)}
    ELSE {FormatParsed(date, d) : d \in ParseLoose(date)}

(***************************************************************************)
(* Text helpers                                                            *)
(***************************************************************************)
\* The characters of the model in UTF-16 code unit order (the order of
\* Array.prototype.sort's default comparison).
CodeUnitOrder ==
    <<" ", ",", "-", "0", "1", "2", "3", "4", "5", "6", "7", "8", "9", ":",
      "A", "B", "C", "D", "E", "F", "G", "H", "I", "J", "K", "L", "M",
      "N", "O", "P", "Q", "R", "S", "T", "U", "V", "W", "X", "Y", "Z",
      "a", "b", "c", "d", "e", "f", "g", "h", "i", "j", "k", "l", "m",
      "n", "o", "p", "q", "r", "s", "t", "u", "v", "w", "x", "y", "z">>

Chars == {CodeUnitOrder[i] : i \in DOMAIN CodeUnitOrder}

\* The place of each character in that order.
CodeUnits == [c \in Chars |-> CHOOSE i \in DOMAIN CodeUnitOrder : CodeUnitOrder[i] = c]

CodeUnit(c) == CodeUnits[c]

\* The lower case of each character.
LowerCase ==
    [c \in Chars |->
        IF CodeUnits[c] \in CodeUnits["A"]..CodeUnits["Z"]
        THEN CodeUnitOrder[CodeUnits[c] + (CodeUnits["a"] - CodeUnits["A"])]
        ELSE c]

\* String.prototype.toLowerCase
toLowerCase(s) == [i \in DOMAIN s |-> LowerCase[s[i]]]

\* String.prototype.includes
includes(s, sub) ==
    \E i \in 0..(Len(s) - Len(sub)) : SubSeq(s, i + 1, i + Len(sub)) = sub

\* String.prototype.startsWith
startsWith(s, prefix) ==
    Len(s) >= Len(prefix) /\ SubSeq(s, 1, Len(prefix)) = prefix

\* The place of the first comma of s, 0 when it has none.
FirstComma(s) ==
    IF \A i \in DOMAIN s : s[i] # "," THEN 0
    ELSE CHOOSE i \in DOMAIN s : s[i] = "," /\ \A j \in 1..(i - 1) : s[j] # ","

\* String.prototype.split(','): the pieces between the commas, empty ones kept.
RECURSIVE split(_)
SplitAt(s, k) ==
    IF k = 0 THEN <<s>>
    ELSE <<SubSeq(s, 1, k - 1)>> \o split(SubSeq(s, k + 1, Len(s)))

split(s) == SplitAt(s, FirstComma(s))

\* a < b in code unit order
RECURSIVE TextLess(_, _)
TextLess(a, b) ==
    IF a = << >> THEN b # << >>
    ELSE IF b = << >> THEN FALSE
    ELSE IF a[1] # b[1] THEN CodeUnit(a[1]) < CodeUnit(b[1])
    ELSE TextLess(Tail(a), Tail(b))

\* Array.prototype.includes on a sequence
InArray(arr, x) == \E i \in DOMAIN arr : arr[i] = x

(***************************************************************************)
(* The upstream commerce API and its orders                                *)
(***************************************************************************)
pageSize == 50
PageLimit == 100

NCG == "fe778da9-5164-4688-acd2-98d044d7ce84"
TradeGuest == "718b9fbb-4e23-48c7-8b2d-da86d2624b36"
ClubMember == "75d4f6cf-cf69-4e76-8f3b-bb35cc7ddeb3"
Guests == "7a5d9556-33e4-4d97-a3e8-37adefc6dcf0"
\* A product that is on no list.
Tasting == "0c1b2a39-0000-4000-8000-5e1ec7ed0001"

excludedProductIDs == <<NCG, TradeGuest, ClubMember, Guests>>

Item(p) == [productId |-> p]

\* The values the upstream gives the fields the handlers read.
GuestCountValues == <<Undefined, Null, Num(0), Num(4)>>
ItemLists ==
    << << >>, <<Item(Tasting)>>, <<Item(ClubMember)>>,
       <<Item(Tasting), Item(NCG)>>, <<Item(TradeGuest), Item(Tasting)>>,
       <<Item(Guests)>>, <<Item(Tasting), Item(Tasting)>> >>
AssociateValues ==
    <<Text(<<"B", "o", "b">>), Undefined, Text(<<"A", "n", "n">>)>>
PaidDateValues ==
    <<Text(<<"2", "0", "2", "4", "-", "0", "1", "-", "0", "5">>), Undefined,
      Text(<<"2", "0", "2", "4", "-", "0", "1", "-", "0", "9">>), Null,
      Text(<<"2", "0", "2", "4", "-", "0", "1", "-", "0", "2">>)>>
OrderDateValue == Text(<<"2", "0", "2", "4", "-", "0", "1", "-", "0", "1">>)
AmountValues == <<Undefined, Num(12500), Num(0)>>

\* The n-th order of the upstream's result for a date range.  allOrders and
\* the responses hold an order as its number n; Order(n) is the object.  The
\* cycle lengths 4, 7 and 3 are coprime: the first 84 orders run through
\* every combination of guest count, items and associate.
Order(n) ==
    LET k == n - 1
    IN [id |-> n,
        orderNumber |-> Text(<<"W", "-">> \o NumToText(1000 + n)),
        guestCount |-> GuestCountValues[(k % Len(GuestCountValues)) + 1],
        items |-> ItemLists[(k % Len(ItemLists)) + 1],
        salesAssociate |-> AssociateValues[(k % Len(AssociateValues)) + 1],
        orderPaidDate |-> PaidDateValues[(k % Len(PaidDateValues)) + 1],
        orderDate |-> OrderDateValue,
        totalAmount |-> AmountValues[((k \div 2) % Len(AmountValues)) + 1],
        total |-> AmountValues[((k \div 5) % Len(AmountValues)) + 1]]

\* The orders of page `page` (of `limit` orders a page) when `total` match.
PageOf(total, page, limit) ==
    LET first == (page - 1) * limit + 1
        last == IF page * limit < total THEN page * limit ELSE total
    IN [i \in 1..(IF last >= first THEN last - first + 1 ELSE 0) |-> first + i - 1]

(***************************************************************************)
(* Guest-Count Filter                                                      *)
(***************************************************************************)
\* A faulty variant: the Club Member product left off the list.
HasExcludedItemNoClub(order) ==
    \E i \in DOMAIN order.items :
        order.items[i].productId \in {NCG, TradeGuest, Guests}

\* order.items.some(item => excludedProductIDs.includes(item.productId))
HasExcludedItem(order) ==
    \E i \in DOMAIN order.items :
        InArray(excludedProductIDs, order.items[i].productId)

\* The predicate of the three filteredOrders filters.
MissingGuestCount(order) ==
    ~Truthy(order.guestCount) /\ ~HasExcludedItem(order)

\* orders.filter(order => ...) over order numbers
guestCountFilter(orders) ==
    SelectSeq(orders, LAMBDA n : MissingGuestCount(Order(n)))

(***************************************************************************)
(* A request in the server: its query and headers, where its handler       *)
(* stands, the handler's local variables and the response once sent.       *)
(* Three fields record what went over the wire and are read by no handler: *)
(* calls, the upstream requests issued (the page asked for, 0 for a        *)
(* request without a page parameter); received, what the upstream answered *)
(* to each; auth, what the identity provider answered.                     *)
(***************************************************************************)
NoUrl ==
    [path |-> "", filter |-> "", start |-> Undefined, end |-> Undefined,
     page |-> Undefined, limit |-> Undefined]

NoResponse == [kind |-> "none"]

Fresh ==
    [query |-> [endpoint |-> "none"],
     pc |-> "idle",
     entered |-> FALSE,
     startDate |-> Undefined,
     endDate |-> Undefined,
     url |-> NoUrl,
     allOrders |-> << >>,
     page |-> 0,
     hasMorePages |-> FALSE,
     res |-> NoResponse,
     calls |-> << >>,
     auth |-> "none",
     received |-> << >>]

\* res.status(status).json(body)
Respond(s, status, body) ==
    [s EXCEPT !.pc = "done",
              !.res = [kind |-> "json", status |-> status, body |-> body]]

Msg(text, arg) == [text |-> text, arg |-> arg]

\* error.response?.data?.message || error.message
ErrorDetail(error) ==
    IF /\ error.response # Undefined
       /\ error.response.data # Undefined
       /\ error.response.data.message # Undefined
    THEN error.response.data.message
    ELSE error.message

\* The catch block of a list endpoint: 500, a fixed message, the error's text
\* and, in development, the url and the dates.
Catch(s, error, env, message) ==
    Respond(s, 500,
            [message |-> message,
             error |-> ErrorDetail(error),
             details |-> IF env = "development"
                         THEN [url |-> s.url,
                               dates |-> [from |-> s.startDate, to |-> s.endDate]]
                         ELSE Undefined])

OrdersCatch(s, error, env) == Catch(s, error, env, "Error fetching orders")

\* The value formatDate gave, as the string it is.
Formatted(f) == IF f.ok THEN [ok |-> TRUE, value |-> Text(f.value)] ELSE f

\* from ? formatDate(from) : undefined
NormalizeParam(x) ==
    IF Truthy(x) THEN Formatted(formatDate(x.v))
    ELSE [ok |-> TRUE, value |-> Undefined]

\* endDate = to ? formatDate(to) : undefined
SetEndDate(s, t) ==
    IF ~t.ok THEN [next |-> "throw", s |-> s, error |-> t.error]
    ELSE [next |-> "go", s |-> [s EXCEPT !.endDate = t.value]]

\* startDate = from ? formatDate(from) : undefined
SetStartDate(s, f) ==
    IF ~f.ok THEN [next |-> "throw", s |-> s, error |-> f.error]
    ELSE SetEndDate([s EXCEPT !.startDate = f.value], NormalizeParam(s.query.to))

\* A faulty variant: no date presence check.
CheckDatesUnchecked(s) ==
    SetStartDate([s EXCEPT !.entered = TRUE], NormalizeParam(s.query.from))

\* The start of a list handler's try block: the date presence check and the
\* two formatDate calls.  [next |-> "go", s] to go on, [next |-> "throw", s,
\* error] when formatDate throws, [next |-> "done", s] when the 400 was sent.
CheckDates(s) ==
    IF ~Truthy(s.query.from) /\ ~Truthy(s.query.to)
    THEN [next |-> "done",
          s |-> Respond([s EXCEPT !.entered = TRUE], 400,
                        [message |-> "At least one date is required."])]
    ELSE SetStartDate([s EXCEPT !.entered = TRUE], NormalizeParam(s.query.from))

\* url = `https://api.commerce7.com/v1/order?` + the orderPaidDate predicate
ListUrl(s) ==
    [path |-> "order",
     filter |-> IF Truthy(s.startDate) /\ Truthy(s.endDate) THEN "btw"
                ELSE IF Truthy(s.startDate) THEN "gte"
                ELSE IF Truthy(s.endDate) THEN "lte"
                ELSE "",
     start |-> s.startDate,
     end |-> s.endDate,
     page |-> Undefined,
     limit |-> Undefined]

(***************************************************************************)
(* GET /api/orders: the Paginated Order Fetcher                            *)
(***************************************************************************)
\* A variant that counts the fetched orders instead of the filtered ones.
OrdersBodyCountingFetched(s, filteredOrders) ==
    [orders |-> filteredOrders,
     total |-> Len(s.allOrders),
     dateRange |-> [from |-> s.startDate, to |-> s.endDate]]

\* res.json({orders, total, dateRange})
OrdersBody(s, filteredOrders) ==
    [orders |-> filteredOrders,
     total |-> Len(filteredOrders),
     dateRange |-> [from |-> s.startDate, to |-> s.endDate]]

\* What follows the loop: the no-orders throw, the filter and the response.
OrdersFinish(s, env) ==
    IF Len(s.allOrders) = 0
    THEN OrdersCatch(s, Err("No orders found for the specified date range", << >>), env)
    ELSE Respond(s, 200, OrdersBody(s, guestCountFilter(s.allOrders)))

\* The loop test, and an iteration up to its `await axios.get(url, authConfig)`.
OrdersLoop(s, env) ==
    IF s.hasMorePages
    THEN [s EXCEPT !.url = [ListUrl(s) EXCEPT !.page = Num(s.page),
                                              !.limit = Num(pageSize)],
                   !.calls = Append(@, s.page),
                   !.pc = "page"]
    ELSE OrdersFinish(s, env)

\* A faulty variant: the limit tested with >=.
SafetyCheckEarly(s) ==
    IF s.page >= PageLimit THEN [s EXCEPT !.hasMorePages = FALSE] ELSE s

\* if (page > 100) hasMorePages = false
SafetyCheck(s) ==
    IF s.page > PageLimit THEN [s EXCEPT !.hasMorePages = FALSE] ELSE s

\* The handler of GET /api/orders up to its first await; c: what the date
\* checks gave.
OrdersBegin(c, env) ==
    CASE c.next = "done" -> c.s
      [] c.next = "throw" -> OrdersCatch(c.s, c.error, env)
      [] c.next = "go" ->
           OrdersLoop([c.s EXCEPT !.allOrders = << >>,
                                  !.page = 1,
                                  !.hasMorePages = TRUE], env)

OrdersEnter(s, env) == OrdersBegin(CheckDates(s), env)

\* A faulty variant: a short page does not end the loop.
OrdersPageAddedNoStop(s, n, env) == [s EXCEPT !.page = @ + 1, !.pc = "delay"]

\* A faulty variant: the next page requested without the wait.
OrdersPageAddedNoDelay(s, n, env) ==
    IF n < pageSize
    THEN OrdersLoop(SafetyCheck([s EXCEPT !.hasMorePages = FALSE]), env)
    ELSE OrdersLoop(SafetyCheck([s EXCEPT !.page = @ + 1]), env)

\* A faulty variant: a page skipped after a full one.
OrdersPageAddedSkipping(s, n, env) ==
    IF n < pageSize
    THEN OrdersLoop(SafetyCheck([s EXCEPT !.hasMorePages = FALSE]), env)
    ELSE [s EXCEPT !.page = @ + 2, !.pc = "delay"]

\* allOrders = allOrders.concat(response.data.orders), and the rest of the
\* iteration.
OrdersPageAdded(s, n, env) ==
    IF n < pageSize
    THEN OrdersLoop(SafetyCheck([s EXCEPT !.hasMorePages = FALSE]), env)
    ELSE [s EXCEPT !.page = @ + 1, !.pc = "delay"]

\* A faulty variant: the page put before the pages fetched so far.
OrdersPageReceivedPrepending(s, data, env) ==
    IF ~data.hasOrders \/ Len(data.orders) = 0
    THEN OrdersFinish([s EXCEPT !.hasMorePages = FALSE], env)
    ELSE OrdersPageAdded([s EXCEPT !.allOrders = data.orders \o @],
                         Len(data.orders), env)

\* A faulty variant: the page assigned instead of concatenated.
OrdersPageReceivedOverwrite(s, data, env) ==
    IF ~data.hasOrders \/ Len(data.orders) = 0
    THEN OrdersFinish([s EXCEPT !.hasMorePages = FALSE], env)
    ELSE OrdersPageAdded([s EXCEPT !.allOrders = data.orders],
                         Len(data.orders), env)

\* A page request answered: the body of the inner try after the await, to the
\* next await or to the response.  data.hasOrders: response.data.orders is set.
OrdersPageReceived(s, data, env) ==
    IF ~data.hasOrders \/ Len(data.orders) = 0
    THEN OrdersFinish([s EXCEPT !.hasMorePages = FALSE], env)
    ELSE OrdersPageAdded([s EXCEPT !.allOrders = @ \o data.orders],
                         Len(data.orders), env)

\* The 500ms timer fired: the safety check, then the loop test.
OrdersDelayDone(s, env) == OrdersLoop(SafetyCheck(s), env)

\* A faulty variant: the failed page requested again.
OrdersPageFailedRetry(s, error, env) == OrdersLoop(s, env)

\* A faulty variant: the error swallowed, and what was fetched so far returned.
OrdersPageFailedPartial(s, error, env) == OrdersFinish(s, env)

\* A page request failed: the inner catch rethrows to the outer catch.
OrdersPageFailed(s, error, env) == OrdersCatch(s, error, env)

(***************************************************************************)
(* authenticateUser                                                        *)
(***************************************************************************)
Bearer == <<"B", "e", "a", "r", "e", "r", " ">>

\* The middleware up to `await supabase.auth.getUser(token)`.
AuthenticateStart(s) ==
    LET authHeader == s.query.authorization
    IN IF ~Truthy(authHeader) \/ ~startsWith(authHeader.v, Bearer)
       THEN Respond(s, 401, [error |-> "No authorization token provided"])
       ELSE [s EXCEPT !.pc = "auth"]

\* getUser's ways to come back: a user, an error, neither, or a rejection.
AuthOutcomes == {"user", "error", "no user", "throws"}

(***************************************************************************)
(* GET /export: refinement and the Excel Exporter                          *)
(***************************************************************************)
ExportCatch(s, error, env) == Catch(s, error, env, "Error generating Excel report")

MissingOrders ==
    Err("Invalid response from Commerce7 API: Missing 'orders' field", << >>)

\* The handler of GET /export (and of GET /api/associates) up to its await:
\* one upstream request, with no page and no limit.
ListBegin(c, env, message) ==
    CASE c.next = "done" -> c.s
      [] c.next = "throw" -> Catch(c.s, c.error, env, message)
      [] c.next = "go" ->
           [c.s EXCEPT !.url = ListUrl(c.s),
                       !.calls = Append(@, 0),
                       !.pc = "list"]

ListEnter(s, env, message) == ListBegin(CheckDates(s), env, message)

ExportEnter(s, env) == ListEnter(s, env, "Error generating Excel report")

\* order.salesAssociate?.name
AssociateName(order) == order.salesAssociate

\* associates.split(',').filter(Boolean)
AssociateList(associates) ==
    SelectSeq(split(associates), LAMBDA a : a # << >>)

\* A faulty variant: the list's length not tested.
InAssociateListAlways(orders, associateList) ==
    SelectSeq(orders,
        LAMBDA n : /\ AssociateName(Order(n)).t = "string"
                   /\ InArray(associateList, AssociateName(Order(n)).v))

\* filteredOrders.filter(order => associateList.includes(order.salesAssociate?.name))
InAssociateList(orders, associateList) ==
    IF Len(associateList) > 0
    THEN SelectSeq(orders,
             LAMBDA n : /\ AssociateName(Order(n)).t = "string"
                        /\ InArray(associateList, AssociateName(Order(n)).v))
    ELSE orders

\* if (associates) { ... }
AssociateRefine(orders, associates) ==
    IF ~Truthy(associates) THEN orders
    ELSE InAssociateList(orders, AssociateList(associates.v))

\* A faulty variant: the order number compared as it is.
SearchRefineExact(orders, search) ==
    IF ~Truthy(search) THEN orders
    ELSE SelectSeq(orders,
             LAMBDA n : includes(Order(n).orderNumber.v, toLowerCase(search.v)))

\* if (search) { ... order.orderNumber.toLowerCase().includes(search.toLowerCase()) }
SearchRefine(orders, search) ==
    IF ~Truthy(search) THEN orders
    ELSE SelectSeq(orders,
             LAMBDA n : includes(toLowerCase(Order(n).orderNumber.v),
                                 toLowerCase(search.v)))

Unknown == Text(<<"U", "n", "k", "n", "o", "w", "n">>)
Missing == Text(<<"M", "i", "s", "s", "i", "n", "g">>)

\* a || b
Or(a, b) == IF Truthy(a) THEN a ELSE b

\* A faulty variant: the guest count as the order has it.
ExportRowRawCount(order) ==
    [OrderNumber |-> order.orderNumber,
     SalesAssociate |-> Or(AssociateName(order), Unknown),
     OrderDate |-> Or(order.orderPaidDate, order.orderDate),
     TotalAmount |-> Or(order.totalAmount, Num(0)),
     GuestCount |-> order.guestCount]

\* The projection of an order to its row.
ExportRow(order) ==
    [OrderNumber |-> order.orderNumber,
     SalesAssociate |-> Or(AssociateName(order), Unknown),
     OrderDate |-> Or(order.orderPaidDate, order.orderDate),
     TotalAmount |-> Or(order.totalAmount, Num(0)),
     GuestCount |-> Or(order.guestCount, Missing)]

\* filteredOrders.map(order => ({...}))
ExportRows(filteredOrders) ==
    [i \in DOMAIN filteredOrders |-> ExportRow(Order(filteredOrders[i]))]

\* A faulty variant: no empty check.
ExportSendAlways(s, exportOrders) ==
    [s EXCEPT !.pc = "done",
              !.res = [kind |-> "xlsx",
                       status |-> 200,
                       filename |-> "guest_count_report.xlsx",
                       sheet |-> "Missing Guest Counts",
                       rows |-> exportOrders]]

\* The empty check, and the workbook sent.
ExportSend(s, exportOrders) ==
    IF Len(exportOrders) = 0
    THEN Respond(s, 400, [message |-> "No orders missing guest counts found."])
    ELSE [s EXCEPT !.pc = "done",
                   !.res = [kind |-> "xlsx",
                            status |-> 200,
                            filename |-> "guest_count_report.xlsx",
                            sheet |-> "Missing Guest Counts",
                            rows |-> exportOrders]]

\* The orders GET /export keeps of the upstream's.
ExportFilter(orders, query) ==
    SearchRefine(AssociateRefine(guestCountFilter(orders), query.associates),
                 query.search)

\* The upstream answered GET /export's request.
ExportListReceived(s, data, env) ==
    IF ~data.hasOrders THEN ExportCatch(s, MissingOrders, env)
    ELSE ExportSend(s, ExportRows(ExportFilter(data.orders, s.query)))

(***************************************************************************)
(* GET /api/associates                                                     *)
(***************************************************************************)
AssociatesCatch(s, error, env) == Catch(s, error, env, "Error fetching associates")

AssociatesEnter(s, env) == ListEnter(s, env, "Error fetching associates")

\* Set.prototype.add
AddName(names, name) == IF InArray(names, name) THEN names ELSE Append(names, name)

\* [...new Set(names)]: first occurrences, in order
RECURSIVE Dedupe(_)
Dedupe(names) ==
    IF names = << >> THEN << >>
    ELSE AddName(Dedupe(SubSeq(names, 1, Len(names) - 1)), names[Len(names)])

\* The place of a least text of names.
LeastAt(names) ==
    CHOOSE i \in DOMAIN names : \A j \in DOMAIN names : ~TextLess(names[j], names[i])

\* Array.prototype.sort() of strings: ascending in code unit order
RECURSIVE SortTexts(_)
SortFrom(names, k) ==
    <<names[k]>> \o
    SortTexts(SubSeq(names, 1, k - 1) \o SubSeq(names, k + 1, Len(names)))

SortTexts(names) == IF names = << >> THEN << >> ELSE SortFrom(names, LeastAt(names))

\* filteredOrders.map(order => order.salesAssociate?.name || "Unknown")
AssociateNames(filteredOrders) ==
    [i \in DOMAIN filteredOrders |->
         Or(AssociateName(Order(filteredOrders[i])), Unknown).v]

\* res.json({associates, total, dateRange})
AssociatesBody(s, uniqueAssociates) ==
    [associates |-> uniqueAssociates,
     total |-> Len(uniqueAssociates),
     dateRange |-> [from |-> s.startDate, to |-> s.endDate]]

\* A variant that leaves the names in the order found.
AssociatesListReceivedUnsorted(s, data, env) ==
    IF ~data.hasOrders THEN AssociatesCatch(s, MissingOrders, env)
    ELSE Respond(s, 200,
             AssociatesBody(s, Dedupe(AssociateNames(guestCountFilter(data.orders)))))

\* The upstream answered GET /api/associates' request.
AssociatesListReceived(s, data, env) ==
    IF ~data.hasOrders THEN AssociatesCatch(s, MissingOrders, env)
    ELSE Respond(s, 200,
             AssociatesBody(s, SortTexts(Dedupe(AssociateNames(
                                   guestCountFilter(data.orders))))))

(***************************************************************************)
(* GET /api/order/:orderId                                                 *)
(***************************************************************************)
\* detailUrl = `https://api.commerce7.com/v1/order/${orderId}`
DetailUrl(s) == [path |-> "order/", orderId |-> s.query.orderId]

\* The handler up to its `await axios.get(detailUrl, authConfig)`.
DetailEnter(s) ==
    [s EXCEPT !.entered = TRUE,
              !.url = DetailUrl(s),
              !.calls = Append(@, 0),
              !.pc = "detail"]

\* res.json(detailedOrder)
DetailReceived(s, data) == Respond(s, 200, data)

\* The catch block: 500, a fixed message and the error's text.
DetailFailed(s, error) ==
    Respond(s, 500,
            [message |-> "Error fetching order details",
             error |-> ErrorDetail(error)])

(***************************************************************************)
(* Routing                                                                 *)
(***************************************************************************)
\* app.get(path, [authenticateUser,] handler): what runs when a request comes in.
Accept(s, env) ==
    CASE s.query.endpoint = "orders" -> AuthenticateStart(s)
      [] s.query.endpoint = "export" -> AuthenticateStart(s)
      [] s.query.endpoint = "associates" -> AssociatesEnter(s, env)
      [] s.query.endpoint = "order" -> DetailEnter(s)

\* next(): the handler behind the middleware.
Handler(s, env) ==
    CASE s.query.endpoint = "orders" -> OrdersEnter(s, env)
      [] s.query.endpoint = "export" -> ExportEnter(s, env)

\* A faulty variant: `!user` not tested.
AuthenticateDoneNoUserTest(s, outcome, env) ==
    CASE outcome = "throws" -> Respond(s, 401, [error |-> "Authentication failed"])
      [] outcome = "error" -> Respond(s, 401, [error |-> "Invalid or expired token"])
      [] outcome \in {"user", "no user"} -> Handler(s, env)

\* The middleware after `await supabase.auth.getUser(token)`.
AuthenticateDone(s, outcome, env) ==
    CASE outcome = "throws" -> Respond(s, 401, [error |-> "Authentication failed"])
      [] outcome \in {"error", "no user"} ->
             Respond(s, 401, [error |-> "Invalid or expired token"])
      [] outcome = "user" -> Handler(s, env)

\* The handler after the await of its single list request.
ListReceived(s, data, env) ==
    CASE s.query.endpoint = "export" -> ExportListReceived(s, data, env)
      [] s.query.endpoint = "associates" -> AssociatesListReceived(s, data, env)

ListFailed(s, error, env) ==
    CASE s.query.endpoint = "export" -> ExportCatch(s, error, env)
      [] s.query.endpoint = "associates" -> AssociatesCatch(s, error, env)

(***************************************************************************)
(* Inputs                                                                  *)
(***************************************************************************)
\* The number of small upstream result sizes tried (0..SmallTotal).
SmallTotal == 2

\* How many orders match the date range upstream: none, a few, a short page,
\* exactly one page, one more, and the sizes [50, 50, 37].
ShortTotals ==
    (0..SmallTotal) \cup
    {pageSize - 13, pageSize, pageSize + 1, 2 * pageSize + 37}

\* A short 100th page, and 100 full pages with and without an order left over.
DeepTotals ==
    {PageLimit * pageSize - 1, PageLimit * pageSize, PageLimit * pageSize + 1}

Canonical == <<"2", "0", "2", "4", "-", "0", "1", "-", "0", "1">>
NoSuchDay == <<"2", "0", "2", "4", "-", "1", "3", "-", "4", "5">>
Instant ==
    <<"2", "0", "2", "4", "-", "0", "1", "-", "3", "1", "T",
      "2", "3", ":", "3", "0", ":", "0", "0", "-", "0", "5", ":", "0", "0">>
Garbage == <<"g", "a", "r", "b", "a", "g", "e">>

InputTexts == {Canonical, NoSuchDay, Instant, Garbage}

\* A query parameter: absent, empty or a text.
DateParams == {Undefined, Text(<< >>)} \cup {Text(d) : d \in InputTexts}

AuthorizationHeaders ==
    {Undefined,
     Text(<<"B", "a", "s", "i", "c", " ", "x">>),
     Text(<<"B", "e", "a", "r", "e", "r", " ", "t">>)}

AssociateParams ==
    {Undefined, Text(<<",">>), Text(<<"A", "n", "n">>),
     Text(<<"A", "n", "n", ",", "U", "n", "k", "n", "o", "w", "n">>)}

SearchParams ==
    {Undefined, Text(<< >>), Text(<<"w", "-", "1", "0", "0">>), Text(<<"z">>)}

ValidToken == Text(Bearer \o <<"t">>)

\* The queries tried: every header and every pair of dates on each endpoint,
\* and every refinement of GET /export under a valid token and valid dates.
Queries ==
    [endpoint : {"orders", "export"}, authorization : AuthorizationHeaders,
     from : DateParams, to : DateParams,
     associates : {Undefined}, search : {Undefined}]
    \cup
    [endpoint : {"associates"}, authorization : {Undefined},
     from : DateParams, to : DateParams,
     associates : {Undefined}, search : {Undefined}]
    \cup
    [endpoint : {"export"}, authorization : {ValidToken},
     from : {Text(Canonical)}, to : {Undefined, Text(Instant)},
     associates : AssociateParams, search : SearchParams]

\* The ways an upstream request fails: no response at all, a 422 with a
\* message in its body, a 500 with none.
UpstreamErrors ==
    {[message |-> Msg("Network Error", << >>), response |-> Undefined],
     [message |-> Msg("Request failed with status code 422", << >>),
      response |-> [status |-> 422,
                    data |-> [message |-> Msg("Invalid date filter", << >>)]]],
     [message |-> Msg("Request failed with status code 500", << >>),
      response |-> [status |-> 500, data |-> [message |-> Undefined]]]}

(***************************************************************************)
(* The dashboard (dashboard.js, class GuestCountDashboard): this.state,    *)
(* the inputs of the page it reads, and the fetches of loadOrders in       *)
(* flight.  Input values are strings, held as tuples of characters;        *)
(* selectedAssociates, a Set, is held as the sequence of its elements in   *)
(* insertion order; associateOptions holds the checkboxes.  What the page   *)
(* renders (table, titles, selection text) is a function of this state and *)
(* is not held.                                                            *)
(***************************************************************************)
\* The dates setDefaultDates puts in the inputs: a week ago and today.
LastWeek == <<"2", "0", "2", "4", "-", "0", "1", "-", "0", "1">>
Today == <<"2", "0", "2", "4", "-", "0", "1", "-", "0", "8">>

\* The dashboard after its constructor.
DashboardFresh ==
    [orders |-> << >>,
     filteredOrders |-> << >>,
     selectedAssociates |-> << >>,
     sortConfig |-> [field |-> Null, direction |-> "asc"],
     isLoading |-> FALSE,
     error |-> Null,
     fromDateInput |-> LastWeek,
     toDateInput |-> Today,
     orderSearchInput |-> << >>,
     associateOptions |-> << >>,
     exportDisabled |-> TRUE,
     status |-> "",
     fetches |-> << >>,
     track |-> [newest |-> << >>, ended |-> "none", shown |-> "none"]]

\* A column name, as the value of sortConfig.field.
Field(name) == [t |-> "string", v |-> name]

\* aVal, bVal of the comparator: a[field], or a.salesAssociate?.name || ''
SortValue(order, field) ==
    IF field = "salesAssociate" THEN Or(order.salesAssociate, Text(<< >>)).v
    ELSE order.orderNumber.v

\* The comparator of sortOrders gives a negative number for (a, b).
ComesBefore(a, b, field, direction) ==
    IF direction = "asc"
    THEN TextLess(SortValue(Order(a), field), SortValue(Order(b), field))
    ELSE TextLess(SortValue(Order(b), field), SortValue(Order(a), field))

\* Where a goes in the sorted sequence: before the first element it comes
\* before (Array.prototype.sort is stable).
PlaceIn(sorted, a, field, direction) ==
    IF \A i \in DOMAIN sorted : ~ComesBefore(a, sorted[i], field, direction)
    THEN Len(sorted) + 1
    ELSE CHOOSE i \in DOMAIN sorted :
             /\ ComesBefore(a, sorted[i], field, direction)
             /\ \A j \in 1..(i - 1) : ~ComesBefore(a, sorted[j], field, direction)

InsertAt(seq, i, a) == SubSeq(seq, 1, i - 1) \o <<a>> \o SubSeq(seq, i, Len(seq))

InsertSorted(sorted, a, field, direction) ==
    InsertAt(sorted, PlaceIn(sorted, a, field, direction), a)

\* this.state.filteredOrders.sort((a, b) => ...)
RECURSIVE SortedPrefix(_, _, _, _)
SortedPrefix(orders, k, field, direction) ==
    IF k = 0 THEN << >>
    ELSE InsertSorted(SortedPrefix(orders, k - 1, field, direction),
                      orders[k], field, direction)

SortOrdersBy(orders, field, direction) ==
    SortedPrefix(orders, Len(orders), field, direction)

\* The head of sortOrders: the direction toggled on the same field, else
\* the field set and the direction 'asc'.
NextSortConfig(sortConfig, field) ==
    IF sortConfig.field = Field(field)
    THEN [sortConfig EXCEPT
              !.direction = IF sortConfig.direction = "asc" THEN "desc" ELSE "asc"]
    ELSE [field |-> Field(field), direction |-> "asc"]

SortWith(d, field, sortConfig) ==
    [d EXCEPT !.sortConfig = sortConfig,
              !.filteredOrders = SortOrdersBy(@, field, sortConfig.direction)]

\* sortOrders(field, updateDisplay)
sortOrders(d, field) == SortWith(d, field, NextSortConfig(d.sortConfig, field))

\* this.state.selectedAssociates.has(order.salesAssociate?.name)
HasAssociate(selectedAssociates, order) ==
    /\ order.salesAssociate.t = "string"
    /\ InArray(selectedAssociates, order.salesAssociate.v)

\* The callback of this.state.orders.filter in applyFilters.
PassesFilters(order, selectedAssociates, searchTerm) ==
    /\ ~(Len(selectedAssociates) > 0 /\ ~HasAssociate(selectedAssociates, order))
    /\ ~(searchTerm # << >>
         /\ ~includes(toLowerCase(order.orderNumber.v), searchTerm))

FilterOrders(orders, selectedAssociates, searchTerm) ==
    SelectSeq(orders,
        LAMBDA n : PassesFilters(Order(n), selectedAssociates, searchTerm))

\* if (this.state.sortConfig.field) this.sortOrders(this.state.sortConfig.field, false)
ApplyCurrentSort(d) ==
    IF d.sortConfig.field # Null THEN sortOrders(d, d.sortConfig.field.v) ELSE d

applyFilters(d) ==
    ApplyCurrentSort(
        [d EXCEPT !.filteredOrders =
             FilterOrders(d.orders, d.selectedAssociates,
                          toLowerCase(d.orderSearchInput))])

\* showStatus(message, type); n is the number inside the message, if any.
showStatus(d, text, n, type) ==
    [d EXCEPT !.status = [text |-> text, n |-> n, type |-> type]]

\* this.state.orders.map(order => order.salesAssociate?.name).filter(Boolean)
NamesOf(orders) ==
    [i \in DOMAIN orders |-> Order(orders[i]).salesAssociate.v]

LoadedNames(orders) ==
    NamesOf(SelectSeq(orders, LAMBDA n : Truthy(Order(n).salesAssociate)))

\* The checkbox populateAssociateFilter creates for a name.
Checkbox(name) == [value |-> name, checked |-> FALSE]

CheckboxesFor(associates) ==
    [i \in DOMAIN associates |-> Checkbox(associates[i])]

\* populateAssociateFilter(): the options emptied and one unchecked checkbox
\* made for each distinct name.
populateAssociateFilter(d) ==
    [d EXCEPT !.associateOptions = CheckboxesFor(Dedupe(LoadedNames(d.orders)))]

\* The change listener of checkbox i, after the browser has flipped it.
CheckboxChanged(d, i) ==
    applyFilters(
        [d EXCEPT !.selectedAssociates =
                      IF d.associateOptions[i].checked
                      THEN AddName(@, d.associateOptions[i].value)
                      ELSE SelectSeq(@, LAMBDA a : a # d.associateOptions[i].value)])

\* A click on checkbox i.
ToggleCheckbox(d, i) ==
    CheckboxChanged([d EXCEPT !.associateOptions[i].checked = ~@], i)

\* checkboxes.forEach(checkbox => { checkbox.checked = true; add(checkbox.value) })
RECURSIVE AddAll(_, _, _)
AddAll(selected, options, k) ==
    IF k = 0 THEN selected
    ELSE AddName(AddAll(selected, options, k - 1), options[k].value)

selectAllAssociates(d) ==
    applyFilters(
        [d EXCEPT !.associateOptions = [i \in DOMAIN @ |-> [@[i] EXCEPT !.checked = TRUE]],
                  !.selectedAssociates = AddAll(@, d.associateOptions,
                                                Len(d.associateOptions))])

clearAllAssociates(d) ==
    applyFilters(
        [d EXCEPT !.associateOptions = [i \in DOMAIN @ |-> [@[i] EXCEPT !.checked = FALSE]],
                  !.selectedAssociates = << >>])

\* The input listener of the search box, the user having typed `text`.
SearchTyped(d, text) == applyFilters([d EXCEPT !.orderSearchInput = text])

\* loadOrders() up to `await fetch(url)`.
loadOrdersStart(d) ==
    IF d.fromDateInput = << >> /\ d.toDateInput = << >>
    THEN showStatus(d, "Please select at least one date.", 0, "error")
    ELSE showStatus(
             [d EXCEPT !.isLoading = TRUE,
                       !.error = Null,
                       !.fetches = Append(@, [from |-> d.fromDateInput,
                                              to |-> d.toDateInput])],
             "Loading orders...", 0, "loading")

\* The fetch at place i of those in flight is settled.
Settled(d, i) ==
    [d EXCEPT !.fetches = SubSeq(@, 1, i - 1) \o SubSeq(@, i + 1, Len(@))]

\* this.showStatus(`Loaded ${this.state.orders.length} orders`, 'success')
LoadedShown(d) ==
    [showStatus(d, "Loaded orders", Len(d.orders), "success")
        EXCEPT !.exportDisabled = FALSE]

\* A row of the table: the order number, the associate, and the values
\* handed to formatDate and to formatMoney.
TableRow(order) ==
    [orderNumber |-> order.orderNumber,
     associate |-> Or(AssociateName(order), Unknown),
     date |-> Or(order.orderDate, order.orderPaidDate),
     amount |-> Or(order.total, order.totalAmount)]

\* renderTableView(): a row for each of filteredOrders
renderTableView(d) ==
    [i \in DOMAIN d.filteredOrders |-> TableRow(Order(d.filteredOrders[i]))]

\* loadOrders() after the awaits, the response being ok: data.orders || []
loadOrdersOk(d, data) ==
    LoadedShown(applyFilters(populateAssociateFilter(
        [d EXCEPT !.orders = IF data.hasOrders THEN data.orders ELSE << >>,
                  !.isLoading = FALSE])))

\* loadOrders(): the catch block.
loadOrdersFailed(d, message) ==
    showStatus([d EXCEPT !.isLoading = FALSE, !.error = message],
               "Error loading orders. Please try again.", 0, "error")

(***************************************************************************)
(* The state machine                                                       *)
(***************************************************************************)
VARIABLES
    req,       \* the requests in the server, by request number
    upstream,  \* the commerce API: how many orders match the date range
    nodeEnv,   \* process.env.NODE_ENV
    dash       \* the dashboard in the browser

vars == <<req, upstream, nodeEnv, dash>>

\* What the upstream answers a list request: the page asked for (the first
\* when none is), of at most 50 orders; or a body with no `orders` field.
UpstreamAnswers(url) ==
    {[hasOrders |-> TRUE,
      orders |-> PageOf(upstream.total,
                        IF url.page = Undefined THEN 1 ELSE url.page.v,
                        pageSize)],
     [hasOrders |-> FALSE, orders |-> << >>]}

\* The record of an upstream answer: a body with n orders (or with no
\* `orders` field), or a failure.
Heard(s, data) ==
    [s EXCEPT !.received =
         Append(@, [ok |-> TRUE, hasOrders |-> data.hasOrders, n |-> Len(data.orders)])]

HeardFailure(s) ==
    [s EXCEPT !.received = Append(@, [ok |-> FALSE, hasOrders |-> FALSE, n |-> 0])]

InitWith(ids, totals) ==
    /\ req = [r \in ids |-> Fresh]
    /\ upstream \in [total : totals]
    /\ nodeEnv \in {"production", "development"}
    /\ dash = DashboardFresh

Init == InitWith({1}, ShortTotals)

\* Request r comes in with query q.
Receive(r, q) ==
    /\ req[r].pc = "idle"
    /\ req' = [req EXCEPT ![r] = Accept([@ EXCEPT !.query = q], nodeEnv)]
    /\ UNCHANGED <<upstream, nodeEnv, dash>>

\* A request comes in.
Arrive == \E r \in DOMAIN req : \E q \in Queries : Receive(r, q)

\* The identity provider answers.
AuthReturns ==
    \E r \in DOMAIN req :
        /\ req[r].pc = "auth"
        /\ \E outcome \in AuthOutcomes :
               req' = [req EXCEPT ![r] =
                          AuthenticateDone([@ EXCEPT !.auth = outcome], outcome, nodeEnv)]
        /\ UNCHANGED <<upstream, nodeEnv, dash>>

\* A faulty variant: allOrders and page shared by the requests, so that an
\* answer is taken by every request awaiting a page.
PageResponseShared ==
    \E r \in DOMAIN req :
        /\ req[r].pc = "page"
        /\ \E data \in UpstreamAnswers(req[r].url) :
               req' = [q \in DOMAIN req |->
                          IF req[q].pc = "page"
                          THEN OrdersPageReceived(Heard(req[q], data), data, nodeEnv)
                          ELSE req[q]]
        /\ UNCHANGED <<upstream, nodeEnv, dash>>

\* The upstream answers a page request of GET /api/orders.
PageResponse ==
    \E r \in DOMAIN req :
        /\ req[r].pc = "page"
        /\ \E data \in UpstreamAnswers(req[r].url) :
               req' = [req EXCEPT ![r] = OrdersPageReceived(Heard(@, data), data, nodeEnv)]
        /\ UNCHANGED <<upstream, nodeEnv, dash>>

\* A page request of GET /api/orders fails.
PageFailure ==
    \E r \in DOMAIN req :
        /\ req[r].pc = "page"
        /\ \E error \in UpstreamErrors :
               req' = [req EXCEPT ![r] = OrdersPageFailed(HeardFailure(@), error, nodeEnv)]
        /\ UNCHANGED <<upstream, nodeEnv, dash>>

\* The delay between two page requests is over.
DelayElapsed ==
    \E r \in DOMAIN req :
        /\ req[r].pc = "delay"
        /\ req' = [req EXCEPT ![r] = OrdersDelayDone(@, nodeEnv)]
        /\ UNCHANGED <<upstream, nodeEnv, dash>>

\* The upstream answers the list request of GET /export or GET /api/associates.
ListResponse ==
    \E r \in DOMAIN req :
        /\ req[r].pc = "list"
        /\ \E data \in UpstreamAnswers(req[r].url) :
               req' = [req EXCEPT ![r] = ListReceived(Heard(@, data), data, nodeEnv)]
        /\ UNCHANGED <<upstream, nodeEnv, dash>>

\* The list request of GET /export or GET /api/associates fails.
ListFailure ==
    \E r \in DOMAIN req :
        /\ req[r].pc = "list"
        /\ \E error \in UpstreamErrors :
               req' = [req EXCEPT ![r] = ListFailed(HeardFailure(@), error, nodeEnv)]
        /\ UNCHANGED <<upstream, nodeEnv, dash>>

Next ==
    \/ Arrive
    \/ AuthReturns
    \/ PageResponse
    \/ PageFailure
    \/ DelayElapsed
    \/ ListResponse
    \/ ListFailure

Spec == Init /\ [][Next]_vars

(***************************************************************************)
(* The pagination loop at depth: one GET /api/orders request with a valid  *)
(* token and valid dates, against an upstream of up to 100 full pages.     *)
(***************************************************************************)
PagingQueries ==
    [endpoint : {"orders"}, authorization : {ValidToken},
     from : {Text(Canonical)}, to : {Text(Instant)},
     associates : {Undefined}, search : {Undefined}]

InitPaging == InitWith({1}, ShortTotals \cup DeepTotals)

ArriveOrders == \E r \in DOMAIN req : \E q \in PagingQueries : Receive(r, q)

NextPaging ==
    \/ ArriveOrders
    \/ AuthReturns
    \/ PageResponse
    \/ PageFailure
    \/ DelayElapsed

SpecPaging == InitPaging /\ [][NextPaging]_vars

\* The paging runs in which every page request is answered or fails, every
\* timer fires and the identity provider comes back.
PagingIds == {1}

InitPagingFair == InitWith(PagingIds, ShortTotals \cup {PageLimit * pageSize + 1})

NextPagingFair ==
    \/ ArriveOrders
    \/ AuthReturns
    \/ PageResponse
    \/ PageFailure
    \/ DelayElapsed

SpecPagingFair ==
    /\ InitPagingFair /\ [][NextPagingFair]_vars
    /\ WF_vars(AuthReturns)
    /\ WF_vars(PageResponse \/ PageFailure)
    /\ WF_vars(DelayElapsed)

(***************************************************************************)
(* GET /api/orders and GET /export side by side: two requests with a valid *)
(* token, the same dates and no refinement, against the same upstream.     *)
(***************************************************************************)
PairQueries ==
    [endpoint : {"orders", "export"}, authorization : {ValidToken},
     from : {Text(Canonical)}, to : {Undefined, Text(Instant)},
     associates : {Undefined}, search : {Undefined}]

InitPair == InitWith({1, 2}, ShortTotals)

ArrivePair == \E r \in DOMAIN req : \E q \in PairQueries : Receive(r, q)

NextPair ==
    \/ ArrivePair
    \/ AuthReturns
    \/ PageResponse
    \/ PageFailure
    \/ DelayElapsed
    \/ ListResponse
    \/ ListFailure

SpecPair == InitPair /\ [][NextPair]_vars

(***************************************************************************)
(* The dashboard in use: the user edits the inputs and clicks, and the     *)
(* fetches of loadOrders are answered in any order.  The server behind     *)
(* /api/orders is the environment here: it answers a fetch with the        *)
(* filtered orders of the fetch's date range, with a body without          *)
(* `orders`, with a status that is not ok, or not at all.                  *)
(***************************************************************************)
\* Fetches of loadOrders in flight at a time.
MaxFetches == 2

\* Orders the upstream holds in the dashboard runs.
DashTotal == 9

\* What the user puts in the date inputs (from, to) and in the search box.
DateInputs == {<<LastWeek, Today>>, <<LastWeek, << >> >>, << << >>, << >> >>}
SearchTexts ==
    {<< >>, <<"w", "-", "1", "0", "0", "2">>, <<"W", "-", "1", "0", "0", "1">>}
SortFields == {"orderNumber", "salesAssociate"}

\* How many orders match a fetch's date range: all the upstream holds from
\* the start date on, half of them up to the end date.
ServedTotal(fetch) ==
    IF fetch.to = << >> THEN upstream.total ELSE upstream.total \div 2

\* The bodies of an ok response to a fetch of /api/orders.
FetchAnswers(fetch) ==
    {[hasOrders |-> TRUE,
      orders |-> guestCountFilter(PageOf(ServedTotal(fetch), 1, ServedTotal(fetch)))],
     [hasOrders |-> FALSE, orders |-> << >>]}

\* error.message in the catch block of loadOrders.
FetchErrors ==
    {Msg("HTTP error! status: ", 401), Msg("Failed to fetch", 0)}

InitDash == InitWith({1}, {DashTotal}) /\ nodeEnv = "production"

\* The user changes the date inputs.
ChangeDates ==
    /\ \E dates \in DateInputs :
           /\ dates # <<dash.fromDateInput, dash.toDateInput>>
           /\ dash' = [dash EXCEPT !.fromDateInput = dates[1],
                                    !.toDateInput = dates[2]]
    /\ UNCHANGED <<req, upstream, nodeEnv>>

\* A click on Load Orders.
ClickLoad ==
    /\ Len(dash.fetches) < MaxFetches
    /\ dash' = loadOrdersStart(dash)
    /\ UNCHANGED <<req, upstream, nodeEnv>>

\* A fetch of loadOrders is answered with an ok response.
LoadResponse ==
    /\ \E i \in DOMAIN dash.fetches : \E data \in FetchAnswers(dash.fetches[i]) :
           dash' = loadOrdersOk(Settled(dash, i), data)
    /\ UNCHANGED <<req, upstream, nodeEnv>>

\* A fetch of loadOrders fails, or its response is not ok.
LoadFailure ==
    /\ \E i \in DOMAIN dash.fetches : \E message \in FetchErrors :
           dash' = loadOrdersFailed(Settled(dash, i), message)
    /\ UNCHANGED <<req, upstream, nodeEnv>>

\* The user types in the search box.
TypeSearch ==
    /\ \E text \in SearchTexts :
           text # dash.orderSearchInput /\ dash' = SearchTyped(dash, text)
    /\ UNCHANGED <<req, upstream, nodeEnv>>

\* A click on an associate's checkbox.
ClickCheckbox ==
    /\ \E i \in DOMAIN dash.associateOptions : dash' = ToggleCheckbox(dash, i)
    /\ UNCHANGED <<req, upstream, nodeEnv>>

ClickSelectAll ==
    /\ dash' = selectAllAssociates(dash)
    /\ UNCHANGED <<req, upstream, nodeEnv>>

ClickClearAll ==
    /\ dash' = clearAllAssociates(dash)
    /\ UNCHANGED <<req, upstream, nodeEnv>>

\* A click on a sortable column header.
ClickHeader ==
    /\ \E field \in SortFields : dash' = sortOrders(dash, field)
    /\ UNCHANGED <<req, upstream, nodeEnv>>

NextDash ==
    \/ ChangeDates
    \/ ClickLoad
    \/ LoadResponse
    \/ LoadFailure
    \/ TypeSearch
    \/ ClickCheckbox
    \/ ClickSelectAll
    \/ ClickClearAll
    \/ ClickHeader

SpecDash == InitDash /\ [][NextDash]_vars

(***************************************************************************)
(* Overlapping loads: the dashboard's loadOrders invoked again while       *)
(* earlier fetches are in flight, the answers coming in any order.         *)
(* dash.track follows the loads and is read by no handler: newest[i] tells *)
(* whether fetch i is that of the load invoked last, ended how that load   *)
(* ended ("none" while in flight), and shown whether state.orders is the   *)
(* result of that load ("newest") or of an earlier one ("older").          *)
(***************************************************************************)
\* loadOrders was invoked: d before, e after.
TrackInvoked(d, e) ==
    IF Len(e.fetches) = Len(d.fetches) THEN e
    ELSE [e EXCEPT !.track =
              [newest |-> [i \in DOMAIN d.fetches |-> FALSE] \o <<TRUE>>,
               ended |-> "none",
               shown |-> IF d.track.shown = "none" THEN "none" ELSE "older"]]

\* Fetch i was settled, with orders to show or with a failure: e is after.
TrackSettled(d, i, ok, e) ==
    [e EXCEPT !.track =
         [newest |-> SubSeq(d.track.newest, 1, i - 1)
                         \o SubSeq(d.track.newest, i + 1, Len(d.track.newest)),
          ended |-> IF ~d.track.newest[i] THEN d.track.ended
                    ELSE IF ok THEN "ok" ELSE "failed",
          shown |-> IF ~ok THEN d.track.shown
                    ELSE IF d.track.newest[i] THEN "newest" ELSE "older"]]

ClickLoadAgain ==
    /\ Len(dash.fetches) < MaxFetches
    /\ dash' = TrackInvoked(dash, loadOrdersStart(dash))
    /\ UNCHANGED <<req, upstream, nodeEnv>>

LoadAnswered ==
    /\ \E i \in DOMAIN dash.fetches : \E data \in FetchAnswers(dash.fetches[i]) :
           dash' = TrackSettled(dash, i, TRUE, loadOrdersOk(Settled(dash, i), data))
    /\ UNCHANGED <<req, upstream, nodeEnv>>

LoadBroken ==
    /\ \E i \in DOMAIN dash.fetches : \E message \in FetchErrors :
           dash' = TrackSettled(dash, i, FALSE, loadOrdersFailed(Settled(dash, i), message))
    /\ UNCHANGED <<req, upstream, nodeEnv>>

NextLoads ==
    \/ ChangeDates
    \/ ClickLoadAgain
    \/ LoadAnswered
    \/ LoadBroken

SpecLoads == InitDash /\ [][NextLoads]_vars

(***************************************************************************)
(* The search refinement on both sides: one GET /export request with a     *)
(* search parameter, and a dashboard in which orders are loaded, the       *)
(* search box is typed in and columns are sorted.                          *)
(***************************************************************************)
\* An upstream of more than one digit's worth of order numbers.
RefineTotal == 37

RefineQueries ==
    [endpoint : {"export"}, authorization : {ValidToken},
     from : {Text(Canonical)}, to : {Undefined}, associates : {Undefined},
     search : SearchParams \cup {Text(<<"W", "-", "1", "0", "1">>)}]

InitRefine == InitWith({1}, {DashTotal, RefineTotal}) /\ nodeEnv = "production"

ArriveRefine == \E r \in DOMAIN req : \E q \in RefineQueries : Receive(r, q)

NextRefine ==
    \/ ArriveRefine
    \/ AuthReturns
    \/ ListResponse
    \/ ListFailure
    \/ ClickLoad
    \/ LoadResponse
    \/ TypeSearch
    \/ ClickHeader

SpecRefine == InitRefine /\ [][NextRefine]_vars

(***************************************************************************)
(* formatDate over many dates: GET /api/associates requests (the route     *)
(* without the middleware) with a `from` of canonical dates, date-times in *)
(* several zones at the ends of months and of years, and texts that are    *)
(* no date.                                                                *)
(***************************************************************************)
\* String(y).padStart(4, '0')
PadYear(y) ==
    IF y < 10 THEN <<"0", "0", "0">> \o NumToText(y)
    ELSE IF y < 100 THEN <<"0", "0">> \o NumToText(y)
    ELSE IF y < 1000 THEN <<"0">> \o NumToText(y)
    ELSE NumToText(y)

DateText(y, mo, d) ==
    PadYear(y) \o <<"-">> \o PadStart2(mo) \o <<"-">> \o PadStart2(d)

DateTimeText(y, mo, d, h, zone) ==
    DateText(y, mo, d) \o <<"T">> \o PadStart2(h)
        \o <<":", "0", "0", ":", "0", "0">> \o zone

YearsTried == {999, 2024}
ZonesTried ==
    {<<"Z">>, <<"+", "0", "5", ":", "3", "0">>, <<"-", "0", "5", ":", "0", "0">>}

DateTexts ==
    InputTexts
    \cup {DateText(y, mo, d) : y \in YearsTried, mo \in {2, 12}, d \in {1, 31}}
    \cup {DateTimeText(y, mo, d, h, zone) :
              y \in YearsTried, mo \in {1, 12}, d \in {1, 31}, h \in {0, 23},
              zone \in ZonesTried}

DateQueries ==
    [endpoint : {"associates"}, authorization : {Undefined},
     from : {Text(d) : d \in DateTexts}, to : {Undefined},
     associates : {Undefined}, search : {Undefined}]

InitDates == InitWith({1}, 0..SmallTotal)

ArriveDates == \E r \in DOMAIN req : \E q \in DateQueries : Receive(r, q)

NextDates ==
    \/ ArriveDates
    \/ ListResponse
    \/ ListFailure

SpecDates == InitDates /\ [][NextDates]_vars

(***************************************************************************)
(* Order details: two GET /api/order/:orderId requests, for orders the     *)
(* upstream has and for orders it does not have.                           *)
(***************************************************************************)
\* The upstream's answer to a lookup of an order it does not have.
OrderNotFound ==
    [message |-> Msg("Request failed with status code 404", << >>),
     response |-> [status |-> 404,
                   data |-> [message |-> Msg("Order not found", << >>)]]]

\* The upstream has the orders 1..upstream.total.
UpstreamHas(orderId) == orderId \in 1..upstream.total

\* The record of the answer to a lookup: the HTTP status, 0 when no response came.
HeardStatus(s, status) ==
    [s EXCEPT !.received =
         Append(@, [ok |-> status = 200, hasOrders |-> FALSE, n |-> 0,
                    status |-> status])]

StatusOf(error) == IF error.response = Undefined THEN 0 ELSE error.response.status

\* The ways a lookup fails: as any upstream request does, and with a 404 when
\* the upstream does not have the order.
DetailErrors(orderId) ==
    UpstreamErrors \cup (IF UpstreamHas(orderId) THEN {} ELSE {OrderNotFound})

OrderIds == 1..(SmallTotal + 1)

DetailQueries == [endpoint : {"order"}, orderId : OrderIds]

InitDetail == InitWith({1, 2}, 0..SmallTotal)

ArriveDetail == \E r \in DOMAIN req : \E q \in DetailQueries : Receive(r, q)

\* The upstream answers the lookup with the order.
DetailResponse ==
    \E r \in DOMAIN req :
        /\ req[r].pc = "detail"
        /\ UpstreamHas(req[r].url.orderId)
        /\ req' = [req EXCEPT ![r] =
                      DetailReceived(HeardStatus(@, 200), Order(req[r].url.orderId))]
        /\ UNCHANGED <<upstream, nodeEnv, dash>>

\* The lookup fails.
DetailFailure ==
    \E r \in DOMAIN req :
        /\ req[r].pc = "detail"
        /\ \E error \in DetailErrors(req[r].url.orderId) :
               req' = [req EXCEPT ![r] =
                          DetailFailed(HeardStatus(@, StatusOf(error)), error)]
        /\ UNCHANGED <<upstream, nodeEnv, dash>>

NextDetail ==
    \/ ArriveDetail
    \/ DetailResponse
    \/ DetailFailure

SpecDetail == InitDetail /\ [][NextDetail]_vars

(***************************************************************************)
(* Properties                                                              *)
(***************************************************************************)
Endpoint(r) == req[r].query.endpoint
Done(r) == req[r].pc = "done"
Status(r) == req[r].res.status
Sent(r, status) == Done(r) /\ req[r].res.kind = "json" /\ Status(r) = status

ExclusionSet == {NCG, TradeGuest, ClubMember, Guests}
NoGuestCount(order) == order.guestCount \in {Undefined, Null, Num(0)}
NoExcludedItem(order) ==
    \A j \in DOMAIN order.items : order.items[j].productId \notin ExclusionSet

\* C1: an order fetched by GET /api/orders is in the response exactly when its
\* guest count is absent, null or zero and none of its items is a product of
\* the exclusion set.
C1_FilterIff ==
    \A r \in DOMAIN req :
        (Endpoint(r) = "orders" /\ Sent(r, 200)) =>
            \A i \in DOMAIN req[r].allOrders :
                InArray(req[r].res.body.orders, req[r].allOrders[i])
                <=> /\ NoGuestCount(Order(req[r].allOrders[i]))
                    /\ NoExcludedItem(Order(req[r].allOrders[i]))

\* An order with no guest count and a Club Member item was fetched and left
\* out, while other orders were returned.
C1_Witness ==
    \E r \in DOMAIN req :
        /\ Endpoint(r) = "orders" /\ Sent(r, 200)
        /\ Len(req[r].res.body.orders) > 0
        /\ \E i \in DOMAIN req[r].allOrders :
               /\ Order(req[r].allOrders[i]).guestCount = Undefined
               /\ Order(req[r].allOrders[i]).items = <<Item(ClubMember)>>
               /\ ~InArray(req[r].res.body.orders, req[r].allOrders[i])

\* The answers so far are full pages and then a short or empty one.
FullThenShort(received) ==
    /\ Len(received) > 0
    /\ \A i \in DOMAIN received : received[i].ok /\ received[i].hasOrders
    /\ \A i \in 1..(Len(received) - 1) : received[i].n = pageSize
    /\ received[Len(received)].n < pageSize

\* The upstream's pages 1..k, one after the other.
RECURSIVE PagesThrough(_, _)
PagesThrough(total, k) ==
    IF k = 0 THEN << >>
    ELSE PagesThrough(total, k - 1) \o PageOf(total, k, pageSize)

\* C2: when pages 1..k-1 came back full and page k short or empty, exactly
\* the requests for pages 1..k were issued (k <= 100) and allOrders is the
\* orders of those pages in order.
C2_StopsAtShortPage ==
    \A r \in DOMAIN req :
        (Endpoint(r) = "orders" /\ Done(r) /\ FullThenShort(req[r].received)) =>
            /\ Len(req[r].received) <= PageLimit
            /\ req[r].calls = [i \in 1..Len(req[r].received) |-> i]
            /\ req[r].allOrders = PagesThrough(upstream.total, Len(req[r].received))

\* Pages of 50, 50 and 37 orders gave 137 orders after 3 requests.
C2_Witness ==
    \E r \in DOMAIN req :
        /\ Endpoint(r) = "orders" /\ Sent(r, 200)
        /\ [i \in DOMAIN req[r].received |-> req[r].received[i].n] = <<50, 50, 37>>
        /\ Len(req[r].allOrders) = 137
        /\ req[r].calls = <<1, 2, 3>>

\* Every answer so far is a full page.
AllFull(received) ==
    /\ Len(received) > 0
    /\ \A i \in DOMAIN received :
           received[i].ok /\ received[i].hasOrders /\ received[i].n = pageSize

\* C3: no page beyond 100 is ever requested; and when every page requested
\* came back full, the requests were pages 1..100, 5000 orders were
\* accumulated and the response is the 200 with its orders.
C3_SafetyValve ==
    \A r \in DOMAIN req :
        Endpoint(r) = "orders" =>
            /\ \A i \in DOMAIN req[r].calls : req[r].calls[i] \in 1..PageLimit
            /\ (Done(r) /\ AllFull(req[r].received)) =>
                   /\ req[r].calls = [i \in 1..PageLimit |-> i]
                   /\ Len(req[r].allOrders) = PageLimit * pageSize
                   /\ Sent(r, 200)
                   /\ "orders" \in DOMAIN req[r].res.body

\* 100 full pages were fetched from an upstream that had one more order.
C3_Witness ==
    \E r \in DOMAIN req :
        /\ Endpoint(r) = "orders" /\ Sent(r, 200)
        /\ AllFull(req[r].received)
        /\ Len(req[r].calls) = 100
        /\ Len(req[r].allOrders) = 5000
        /\ upstream.total = 5001

\* Two responses alike in status and in the `message` field.
SameStatusAndMessage(a, b) ==
    a.status = b.status /\ a.body.message = b.body.message

\* C4: the response to a first page of zero orders differs, in status or in
\* message, from the response to a failed page request.
C4_NoDataDistinct ==
    \A r \in DOMAIN req :
        (/\ Endpoint(r) = "orders" /\ Done(r)
         /\ req[r].received = <<[ok |-> TRUE, hasOrders |-> TRUE, n |-> 0]>>) =>
            \A error \in UpstreamErrors :
                ~SameStatusAndMessage(req[r].res,
                                      OrdersPageFailed(req[r], error, nodeEnv).res)

\* C5: when a page request of GET /api/orders has failed, the response is the
\* 500 error body of message, error and details, with no orders in it.
C5_NoPartialResults ==
    \A r \in DOMAIN req :
        (/\ Endpoint(r) = "orders" /\ Done(r)
         /\ \E i \in DOMAIN req[r].received : ~req[r].received[i].ok) =>
            /\ Sent(r, 500)
            /\ DOMAIN req[r].res.body = {"message", "error", "details"}

\* The third page failed after two pages, 100 orders, had been accumulated.
C5_Witness ==
    \E r \in DOMAIN req :
        /\ Endpoint(r) = "orders" /\ Sent(r, 500)
        /\ Len(req[r].received) = 3
        /\ req[r].received[1].ok /\ req[r].received[2].ok /\ ~req[r].received[3].ok
        /\ Len(req[r].allOrders) = 100

Absent == {Undefined, Text(<< >>)}

\* C6: with `from` and `to` both absent or empty, no upstream request is
\* issued, and the handler of each of the three endpoints, once entered (for
\* /api/orders and /export: once the token is validated), answers 400 with
\* the validation message.
C6_DatesRequired ==
    \A r \in DOMAIN req :
        (/\ Endpoint(r) \in {"orders", "associates", "export"}
         /\ req[r].query.from \in Absent /\ req[r].query.to \in Absent) =>
            /\ req[r].calls = << >>
            /\ req[r].entered =>
                   /\ Sent(r, 400)
                   /\ req[r].res.body = [message |-> "At least one date is required."]

\* GET /export?from=&to with a valid token was answered 400.
C6_Witness ==
    \E r \in DOMAIN req :
        /\ Endpoint(r) = "export" /\ req[r].entered
        /\ req[r].query.from = Text(<< >>) /\ req[r].query.to = Undefined
        /\ Sent(r, 400)

\* Texts that name no date.
NoDate == {Text(Garbage), Text(NoSuchDay)}

\* C7: a request whose `from` or `to` names no date is answered 400, with no
\* upstream request issued.
C7_InvalidDateIs400 ==
    \A r \in DOMAIN req :
        (/\ Endpoint(r) \in {"orders", "associates", "export"}
         /\ req[r].entered
         /\ req[r].query.from \in NoDate \/ req[r].query.to \in NoDate) =>
            Sent(r, 400) /\ req[r].calls = << >>

\* C8: on GET /api/orders and GET /export the handler is entered, and an
\* upstream request issued, only with a Bearer token the identity provider
\* gave a user for; any other request is answered 401 with no upstream
\* request and no date normalized.
C8_AuthFirst ==
    \A r \in DOMAIN req :
        Endpoint(r) \in {"orders", "export"} =>
            /\ (req[r].entered \/ req[r].calls # << >>) =>
                   req[r].query.authorization = ValidToken /\ req[r].auth = "user"
            /\ (/\ Done(r)
                /\ \/ req[r].query.authorization # ValidToken
                   \/ req[r].auth \in {"error", "no user", "throws"}) =>
                   /\ Sent(r, 401)
                   /\ req[r].calls = << >>
                   /\ ~req[r].entered
                   /\ req[r].startDate = Undefined /\ req[r].endDate = Undefined

\* GET /export with a Bearer token the identity provider rejected got 401.
C8_Witness ==
    \E r \in DOMAIN req :
        /\ Endpoint(r) = "export" /\ Sent(r, 401)
        /\ req[r].query.authorization = ValidToken
        /\ req[r].query.from = Text(Canonical)
        /\ req[r].auth = "error"

\* C9: GET /export without refinement exports exactly the orders that
\* GET /api/orders returns for the same dates and the same upstream.
C9_ExportEqualsOrders ==
    \A a, b \in DOMAIN req :
        (/\ Endpoint(a) = "orders" /\ Sent(a, 200)
         /\ Endpoint(b) = "export" /\ Done(b)
         /\ Len(req[b].received) = 1
         /\ req[b].received[1].ok /\ req[b].received[1].hasOrders
         /\ req[a].query.from = req[b].query.from
         /\ req[a].query.to = req[b].query.to
         /\ req[b].query.associates = Undefined
         /\ req[b].query.search = Undefined) =>
            /\ req[b].res.kind = "xlsx"
            /\ [i \in DOMAIN req[b].res.rows |-> req[b].res.rows[i].OrderNumber]
               = [i \in DOMAIN req[a].res.body.orders |->
                      Order(req[a].res.body.orders[i]).orderNumber]

\* C10: GET /export never sends a spreadsheet without rows; when the upstream
\* gave an orders list of which the filters keep nothing, the response is
\* the 400 JSON error.
C10_NoEmptySpreadsheet ==
    \A r \in DOMAIN req :
        (Endpoint(r) = "export" /\ Done(r)) =>
            /\ req[r].res.kind = "xlsx" => Len(req[r].res.rows) > 0
            /\ (/\ Len(req[r].received) = 1
                /\ req[r].received[1].ok /\ req[r].received[1].hasOrders
                /\ ExportFilter(PageOf(upstream.total, 1, pageSize), req[r].query) = << >>)
               => Sent(r, 400)

\* The upstream gave orders, the search matched none of them: 400.
C10_Witness ==
    \E r \in DOMAIN req :
        /\ Endpoint(r) = "export" /\ Sent(r, 400)
        /\ Len(req[r].received) = 1 /\ req[r].received[1].n > 0
        /\ req[r].query.search = Text(<<"z">>)

\* GET /export has answered from an upstream orders list.
Exported(r) ==
    /\ Endpoint(r) = "export" /\ Done(r)
    /\ Len(req[r].received) = 1
    /\ req[r].received[1].ok /\ req[r].received[1].hasOrders

\* The orders of the upstream's answer to GET /export that pass the
\* guest-count filter.
ExportCandidates == guestCountFilter(PageOf(upstream.total, 1, pageSize))

\* The response of GET /export when `kept` are the orders to export.
ExportAnswers(r, kept) ==
    IF kept = << >> THEN Sent(r, 400)
    ELSE req[r].res.kind = "xlsx" /\ req[r].res.rows = ExportRows(kept)

\* An order's sales-associate name, "Unknown" when it has none.
NameOrUnknown(order) ==
    IF order.salesAssociate.t = "string" THEN order.salesAssociate.v ELSE Unknown.v

\* The names of a comma-separated `associates` parameter.
SuppliedNames(associates) ==
    {AssociateList(associates.v)[i] : i \in DOMAIN AssociateList(associates.v)}

\* C11: with a non-empty set of associate names supplied (and no search),
\* GET /export exports exactly the filtered orders whose associate name,
\* "Unknown" for an order without one, is in the set.
C11_UnknownFallback ==
    \A r \in DOMAIN req :
        (/\ Exported(r)
         /\ Truthy(req[r].query.associates)
         /\ SuppliedNames(req[r].query.associates) # {}
         /\ ~Truthy(req[r].query.search)) =>
            ExportAnswers(r,
                SelectSeq(ExportCandidates,
                    LAMBDA n : NameOrUnknown(Order(n))
                                   \in SuppliedNames(req[r].query.associates)))

\* Text `part` occurs in `whole`, letters compared without regard to case.
ContainsIgnoringCase(whole, part) ==
    \E i \in 0..(Len(whole) - Len(part)) :
        \A j \in 1..Len(part) : LowerCase[whole[i + j]] = LowerCase[part[j]]

Elements(seq) == {seq[i] : i \in DOMAIN seq}

\* C12: with a non-empty search string (and no associate refinement),
\* GET /export exports exactly the filtered orders whose order number
\* contains the string, case ignored; and the dashboard's filteredOrders are
\* exactly the loaded orders whose order number does, each once.
C12_SearchIgnoresCase ==
    /\ \A r \in DOMAIN req :
           (/\ Exported(r)
            /\ ~Truthy(req[r].query.associates)
            /\ Truthy(req[r].query.search)) =>
               ExportAnswers(r,
                   SelectSeq(ExportCandidates,
                       LAMBDA n : ContainsIgnoringCase(Order(n).orderNumber.v,
                                                       req[r].query.search.v)))
    /\ (dash.orderSearchInput # << >> /\ dash.selectedAssociates = << >>) =>
           /\ Elements(dash.filteredOrders)
              = {n \in Elements(dash.orders) :
                     ContainsIgnoringCase(Order(n).orderNumber.v, dash.orderSearchInput)}
           /\ Cardinality(Elements(dash.filteredOrders)) = Len(dash.filteredOrders)

\* GET /export?search=w-100 exported some of the filtered orders and not all;
\* the dashboard, with W-1001 typed, shows one of several loaded orders.
C12_Witness ==
    /\ \E r \in DOMAIN req :
           /\ Exported(r)
           /\ req[r].query.search = Text(<<"w", "-", "1", "0", "0">>)
           /\ req[r].res.kind = "xlsx"
           /\ Len(req[r].res.rows) < Len(ExportCandidates)
    /\ dash.orderSearchInput = <<"W", "-", "1", "0", "0", "1">>
    /\ dash.filteredOrders = <<1>>
    /\ Len(dash.orders) > 1

\* An `associates` parameter that names nobody: absent, empty, or commas only.
NamesNobody(associates) ==
    \/ associates = Undefined
    \/ associates.t = "string" /\ \A i \in DOMAIN associates.v : associates.v[i] = ","

\* A `search` parameter that is absent or empty.
NoSearch(search) == search \in {Undefined, Text(<< >>)}

\* C13: in GET /export an associates parameter that names nobody narrows
\* nothing (the result is that of the search alone), an absent or empty
\* search narrows nothing (the result is that of the associates alone), and
\* the result is the same with the two refinements applied in the other order.
C13_RefinementsIndependent ==
    \A r \in DOMAIN req :
        Exported(r) =>
            /\ NamesNobody(req[r].query.associates) =>
                   ExportAnswers(r, SearchRefine(ExportCandidates, req[r].query.search))
            /\ NoSearch(req[r].query.search) =>
                   ExportAnswers(r, AssociateRefine(ExportCandidates,
                                                    req[r].query.associates))
            /\ (NamesNobody(req[r].query.associates) /\ NoSearch(req[r].query.search)) =>
                   ExportAnswers(r, ExportCandidates)
            /\ ExportAnswers(r,
                   AssociateRefine(SearchRefine(ExportCandidates, req[r].query.search),
                                   req[r].query.associates))

\* GET /export?associates=,&search= exported every filtered order, of
\* several associates.
C13_Witness ==
    \E r \in DOMAIN req :
        /\ Exported(r)
        /\ req[r].query.associates = Text(<<",">>)
        /\ req[r].query.search = Text(<< >>)
        /\ req[r].res.kind = "xlsx"
        /\ Len(req[r].res.rows) = Len(ExportCandidates)
        /\ \E i, j \in DOMAIN req[r].res.rows :
               req[r].res.rows[i].SalesAssociate # req[r].res.rows[j].SalesAssociate

\* formatDate accepted the request's `from`: startDate is its result.
Normalized(r) == req[r].entered /\ req[r].startDate.t = "string"

\* C14: formatDate gives a `from` of the canonical pattern back unchanged,
\* and gives its own result back unchanged when applied to it again.
C14_FormatDateIdempotent ==
    \A r \in DOMAIN req :
        Normalized(r) =>
            /\ MatchesCanonical(req[r].query.from.v) =>
                   req[r].startDate = req[r].query.from
            /\ \A again \in formatDateOutcomes(req[r].startDate.v) :
                   again = [ok |-> TRUE, value |-> req[r].startDate.v]

\* The day after Instant's calendar day: its day in UTC.
InstantInUTC == <<"2", "0", "2", "4", "-", "0", "2", "-", "0", "1">>

\* C15: a 200 response of GET /api/orders has total equal to the number of
\* its orders, orders equal to the fetched orders that lack a guest count and
\* have no excluded item, in the order fetched, and dateRange equal to the
\* normalized from and to of the query.
C15_OrdersResponseShape ==
    \A r \in DOMAIN req :
        (Endpoint(r) = "orders" /\ Sent(r, 200)) =>
            /\ req[r].res.body.total = Len(req[r].res.body.orders)
            /\ req[r].res.body.orders =
                   SelectSeq(req[r].allOrders,
                       LAMBDA n : NoGuestCount(Order(n)) /\ NoExcludedItem(Order(n)))
            /\ req[r].res.body.dateRange =
                   [from |-> NormalizeParam(req[r].query.from).value,
                    to |-> NormalizeParam(req[r].query.to).value]

\* From 37 fetched orders, one with guest count 0 and no excluded item was
\* returned and one with guest count 4 was not; from was a date-time and
\* dateRange.from is its UTC day.
C15_Witness ==
    \E r \in DOMAIN req :
        /\ Endpoint(r) = "orders" /\ Sent(r, 200)
        /\ Len(req[r].allOrders) = pageSize - 13
        /\ req[r].res.body.total = Len(req[r].res.body.orders)
        /\ req[r].res.body.total < Len(req[r].allOrders)
        /\ \E i, j \in DOMAIN req[r].allOrders :
               /\ Order(req[r].allOrders[i]).guestCount = Num(0)
               /\ InArray(req[r].res.body.orders, req[r].allOrders[i])
               /\ Order(req[r].allOrders[j]).guestCount = Num(4)
               /\ ~InArray(req[r].res.body.orders, req[r].allOrders[j])
        /\ req[r].query.from = Text(Instant)
        /\ req[r].res.body.dateRange = [from |-> Text(InstantInUTC), to |-> Undefined]

\* The orders GET /api/associates fetched that pass the guest-count filter.
AssociateCandidates ==
    SelectSeq(PageOf(upstream.total, 1, pageSize),
        LAMBDA n : NoGuestCount(Order(n)) /\ NoExcludedItem(Order(n)))

\* names is the `associates` of a response over the orders `passing`.
ListsAssociatesOf(names, passing) ==
    /\ \A i, j \in DOMAIN names : i < j => TextLess(names[i], names[j])
    /\ \A i, j \in DOMAIN names : names[i] = names[j] => i = j
    /\ InArray(names, Unknown.v)
           <=> \E k \in DOMAIN passing : ~Truthy(AssociateName(Order(passing[k])))
    /\ \A i \in DOMAIN names :
           \/ names[i] = Unknown.v
           \/ \E k \in DOMAIN passing :
                  AssociateName(Order(passing[k])) = Text(names[i])

\* C16: the associates of a 200 response of GET /api/associates are in
\* ascending order without duplicates, contain "Unknown" exactly when an
\* order passing the guest-count filter has no associate name, contain
\* otherwise only names of such orders, and are `total` in number.
C16_AssociatesList ==
    \A r \in DOMAIN req :
        (Endpoint(r) = "associates" /\ Sent(r, 200)) =>
            /\ ListsAssociatesOf(req[r].res.body.associates, AssociateCandidates)
            /\ req[r].res.body.total = Len(req[r].res.body.associates)

\* Orders of Bob, of nobody and of Ann, found in that order, gave
\* ["Ann", "Bob", "Unknown"] and total 3; an order of guest count 4 gave no name.
C16_Witness ==
    \E r \in DOMAIN req :
        /\ Endpoint(r) = "associates" /\ Sent(r, 200)
        /\ req[r].res.body.associates =
               <<<<"A", "n", "n">>, <<"B", "o", "b">>, Unknown.v>>
        /\ req[r].res.body.total = 3
        /\ Len(AssociateCandidates) > 3
        /\ AssociateName(Order(AssociateCandidates[1])) = Text(<<"B", "o", "b">>)
        /\ Len(AssociateCandidates) < req[r].received[1].n

\* Request r is a finished order lookup whose answer had this HTTP status.
LookedUp(r, status) ==
    /\ Endpoint(r) = "order" /\ Done(r)
    /\ Len(req[r].received) = 1
    /\ req[r].received[1].status = status

\* C17: GET /api/order/:orderId issues exactly one upstream lookup, answers
\* 200 with the upstream's record as it is when the lookup succeeds, and
\* answers a lookup the upstream reports as missing (404) differently, in
\* status or in message, from a lookup that failed in any other way.
C17_DetailLookup ==
    \A a \in DOMAIN req :
        (Endpoint(a) = "order" /\ Done(a)) =>
            /\ Len(req[a].calls) = 1
            /\ LookedUp(a, 200) =>
                   /\ Sent(a, 200)
                   /\ req[a].res.body = Order(req[a].query.orderId)
            /\ \A b \in DOMAIN req :
                   (/\ LookedUp(a, 404)
                    /\ Endpoint(b) = "order" /\ Done(b)
                    /\ ~LookedUp(b, 404) /\ ~LookedUp(b, 200)) =>
                       ~SameStatusAndMessage(req[a].res, req[b].res)

\* One lookup, and the record as it is: what holds of every order lookup.
DetailOneLookupUnmodified ==
    \A a \in DOMAIN req :
        (Endpoint(a) = "order" /\ Done(a)) =>
            /\ Len(req[a].calls) = 1
            /\ LookedUp(a, 200) =>
                   /\ Sent(a, 200)
                   /\ req[a].res.body = Order(req[a].query.orderId)

\* The last upstream request of r failed.
UpstreamFailed(r) ==
    /\ Done(r)
    /\ Len(req[r].received) > 0
    /\ ~req[r].received[Len(req[r].received)].ok

\* The `message` of an endpoint's error responses.
FailureMessage(endpoint) ==
    CASE endpoint = "orders" -> "Error fetching orders"
      [] endpoint = "associates" -> "Error fetching associates"
      [] endpoint = "export" -> "Error generating Excel report"

\* The texts an upstream error carries: its message and that of its body.
UpstreamTexts ==
    {error.message : error \in UpstreamErrors}
    \cup {ErrorDetail(error) : error \in UpstreamErrors}

\* C18: a request whose upstream request failed is answered 500 with the
\* endpoint's fixed message, and in production mode nothing of the response
\* is a text of the upstream's error.
C18_UpstreamErrorHidden ==
    \A r \in DOMAIN req :
        (Endpoint(r) \in {"orders", "associates", "export"} /\ UpstreamFailed(r)) =>
            /\ Sent(r, 500)
            /\ req[r].res.body.message = FailureMessage(Endpoint(r))
            /\ nodeEnv = "production" =>
                   /\ req[r].res.body.error \notin UpstreamTexts
                   /\ req[r].res.body.details = Undefined

\* What holds of C18: the status, the fixed message, and no `details` in
\* production mode.
UpstreamErrorStable ==
    \A r \in DOMAIN req :
        (Endpoint(r) \in {"orders", "associates", "export"} /\ UpstreamFailed(r)) =>
            /\ Sent(r, 500)
            /\ req[r].res.body.message = FailureMessage(Endpoint(r))
            /\ nodeEnv = "production" => req[r].res.body.details = Undefined

\* The page requests of r that have no answer yet.
InFlight(r) == Len(req[r].calls) - Len(req[r].received)

\* C19: the page requests of a GET /api/orders request are for the pages
\* 1, 2, 3, ... in that order; at most one of them is without an answer, and
\* only while the handler awaits it, so that every request but the last was
\* answered before the next was issued.
C19_PagesSequential ==
    \A r \in DOMAIN req :
        Endpoint(r) = "orders" =>
            /\ req[r].calls = [i \in 1..Len(req[r].calls) |-> i]
            /\ InFlight(r) \in {0, 1}
            /\ InFlight(r) = 1 <=> req[r].pc = "page"
            /\ \A i \in 1..(Len(req[r].calls) - 1) : req[r].received[i].ok

\* Page 3 is awaited after pages 1 and 2 were answered.
C19_Witness ==
    \E r \in DOMAIN req :
        /\ Endpoint(r) = "orders"
        /\ req[r].calls = <<1, 2, 3>>
        /\ Len(req[r].received) = 2
        /\ req[r].pc = "page"

\* This step issues a page request of r that is not its first.
IssuesNextPage(r) ==
    /\ Endpoint(r) = "orders"
    /\ Len(req[r].calls) >= 1
    /\ Len(req'[r].calls) > Len(req[r].calls)

\* C20: a page request of GET /api/orders after the first is issued only by
\* the step that ends the 500ms wait, and that wait began when the page
\* before was answered: no two page requests without a wait between them.
C20_DelayBetweenPages ==
    [][\A r \in DOMAIN req :
           IssuesNextPage(r) =>
               /\ req[r].pc = "delay"
               /\ Len(req[r].received) = Len(req[r].calls)
               /\ req'[r].pc = "page"
               /\ Len(req'[r].calls) = Len(req[r].calls) + 1]_vars

\* Page 2 is awaited: page 1 came back full and the wait is over.
C20_Witness ==
    \E r \in DOMAIN req :
        /\ Endpoint(r) = "orders"
        /\ req[r].calls = <<1, 2>>
        /\ req[r].received = <<[ok |-> TRUE, hasOrders |-> TRUE, n |-> pageSize]>>
        /\ req[r].pc = "page"

\* C21: a GET /api/orders request asks for no page twice, and a failed page
\* request is its last upstream request: the request is answered 500 and
\* nothing more is asked of the upstream.
C21_NoRetry ==
    \A r \in DOMAIN req :
        Endpoint(r) = "orders" =>
            /\ \A i, j \in DOMAIN req[r].calls :
                   req[r].calls[i] = req[r].calls[j] => i = j
            /\ \A i \in DOMAIN req[r].received :
                   ~req[r].received[i].ok =>
                       /\ i = Len(req[r].calls)
                       /\ Sent(r, 500)

\* Page 2 failed after a full page 1: two requests were issued and the
\* request was answered 500.
C21_Witness ==
    \E r \in DOMAIN req :
        /\ Endpoint(r) = "orders" /\ Sent(r, 500)
        /\ req[r].calls = <<1, 2>>
        /\ Len(req[r].received) = 2
        /\ req[r].received[1].ok /\ ~req[r].received[2].ok

\* The answer to the last page request of r.
LastHeard(r) == req[r].received[Len(req[r].received)]

\* The three ends of the pagination loop of a request that began it.
LastPageReached(r) ==
    /\ Done(r) /\ LastHeard(r).ok
    /\ (~LastHeard(r).hasOrders \/ LastHeard(r).n < pageSize)

SafetyLimitReached(r) ==
    /\ Done(r) /\ LastHeard(r).ok
    /\ LastHeard(r).hasOrders /\ LastHeard(r).n = pageSize
    /\ req[r].page > PageLimit

Failed(r) == Done(r) /\ ~LastHeard(r).ok

\* How many of the three ends hold of r.
EndsReached(r) ==
    (IF LastPageReached(r) THEN 1 ELSE 0)
    + (IF SafetyLimitReached(r) THEN 1 ELSE 0)
    + (IF Failed(r) THEN 1 ELSE 0)

\* Where the loop of r stands, given the size of the last page fetched and
\* the page counter: at its end exactly when the page was short or the
\* counter is past the limit.
LoopBounded(r) ==
    /\ Len(req[r].calls) <= PageLimit
    /\ Len(req[r].allOrders) <= PageLimit * pageSize
    /\ req[r].page <= PageLimit + 1
    /\ Done(r) => EndsReached(r) = 1
    /\ req[r].pc = "page" => Len(req[r].calls) = req[r].page
    /\ req[r].pc = "delay" =>
           /\ LastHeard(r).ok /\ LastHeard(r).n = pageSize
           /\ req[r].page = Len(req[r].calls) + 1
    /\ (Done(r) /\ LastHeard(r).ok) =>
           \/ LastHeard(r).n < pageSize
           \/ LastHeard(r).n = pageSize /\ req[r].page = PageLimit + 1

\* C22: a GET /api/orders request that began its pagination loop issues at
\* most 100 page requests and holds at most 5000 orders, stands at each
\* moment where the size of the last page and the page counter put it, and
\* ends, in exactly one of LastPageReached, SafetyLimitReached and Failed.
C22_LoopTerminates ==
    /\ [](\A r \in PagingIds : Len(req[r].calls) >= 1 => LoopBounded(r))
    /\ \A r \in PagingIds : (req[r].pc = "page") ~> Done(r)

\* The loop ended at the safety limit, with 100 requests and 5000 orders.
C22_Witness ==
    \E r \in DOMAIN req :
        /\ Len(req[r].calls) = PageLimit
        /\ SafetyLimitReached(r)
        /\ Len(req[r].allOrders) = PageLimit * pageSize

\* The i-th order of the upstream's pages taken one after the other: the
\* order at its place on its page.
UpstreamAt(i) ==
    PageOf(upstream.total, ((i - 1) \div pageSize) + 1, pageSize)[((i - 1) % pageSize) + 1]

\* The place of order n among the fetched orders of r.
PlaceFetched(r, n) == CHOOSE i \in DOMAIN req[r].allOrders : req[r].allOrders[i] = n

\* C23: in a 200 response of GET /api/orders the fetched orders are the
\* upstream's pages 1, 2, ... one after the other, each as the upstream gave
\* it, and the returned orders are fetched orders in the order fetched, none
\* of them twice.
C23_UpstreamOrderKept ==
    \A r \in DOMAIN req :
        (Endpoint(r) = "orders" /\ Sent(r, 200)) =>
            /\ \A i \in DOMAIN req[r].allOrders : req[r].allOrders[i] = UpstreamAt(i)
            /\ \A i \in DOMAIN req[r].res.body.orders :
                   InArray(req[r].allOrders, req[r].res.body.orders[i])
            /\ \A i \in 1..(Len(req[r].res.body.orders) - 1) :
                   PlaceFetched(r, req[r].res.body.orders[i])
                       < PlaceFetched(r, req[r].res.body.orders[i + 1])

\* Three pages were fetched, and orders of the first and of the third page
\* were returned, an order of the second page between them.
C23_Witness ==
    \E r \in DOMAIN req :
        /\ Endpoint(r) = "orders" /\ Sent(r, 200)
        /\ Len(req[r].received) = 3
        /\ Len(req[r].res.body.orders) > 2
        /\ PlaceFetched(r, req[r].res.body.orders[1]) <= pageSize
        /\ PlaceFetched(r, req[r].res.body.orders[Len(req[r].res.body.orders)])
               > 2 * pageSize
        /\ \E i \in DOMAIN req[r].res.body.orders :
               /\ PlaceFetched(r, req[r].res.body.orders[i]) > pageSize
               /\ PlaceFetched(r, req[r].res.body.orders[i]) <= 2 * pageSize

(***************************************************************************)
(* A request run alone: the handler of GET /api/orders applied to the      *)
(* request's own query, to what the identity provider told it and to the   *)
(* answers to its own page requests, and to nothing else.                  *)
(***************************************************************************)
\* The request after the middleware.
AloneBegun(q, outcome, env) ==
    AuthenticateDone([Accept([Fresh EXCEPT !.query = q], env) EXCEPT !.auth = outcome],
                     outcome, env)

\* The body the upstream gave to the page request s awaits, as recorded.
AnswerTo(s, heard) ==
    [hasOrders |-> heard.hasOrders,
     orders |-> IF heard.hasOrders
                THEN PageOf(upstream.total, s.page, pageSize) ELSE << >>]

\* The request s, awaiting a page, after the answer `heard`.
AloneAnswered(s, heard, error, env) ==
    IF heard.ok
    THEN OrdersPageReceived(Heard(s, AnswerTo(s, heard)), AnswerTo(s, heard), env)
    ELSE OrdersPageFailed(HeardFailure(s), error, env)

\* The timer of a waiting request fires.
AloneResumed(s, env) == IF s.pc = "delay" THEN OrdersDelayDone(s, env) ELSE s

\* The request after the first k of the answers.
RECURSIVE AloneThrough(_, _, _, _, _, _)
AloneThrough(q, outcome, received, k, error, env) ==
    IF k = 0 THEN AloneBegun(q, outcome, env)
    ELSE AloneAnswered(
             AloneResumed(AloneThrough(q, outcome, received, k - 1, error, env), env),
             received[k], error, env)

\* s is a state of the request that ran alone to `alone`: that state, or
\* the one after its timer.
AsAlone(s, alone, env) == s = alone \/ s = AloneResumed(alone, env)

\* C24: whatever the other request does in between, a GET /api/orders
\* request past its middleware is in the state it would be in had it run
\* alone with the same query and the same answers to its own page requests:
\* the same fetched orders, page counter, requests and response.
C24_RequestsIndependent ==
    \A r \in DOMAIN req :
        (Endpoint(r) = "orders" /\ req[r].auth # "none") =>
            \E error \in UpstreamErrors :
                AsAlone(req[r],
                        AloneThrough(req[r].query, req[r].auth, req[r].received,
                                     Len(req[r].received), error, nodeEnv),
                        nodeEnv)

\* Two GET /api/orders requests were under way at once, one awaiting page 2
\* with 50 orders fetched and the other awaiting page 1; the first went on
\* to the end.
C24_Witness ==
    \E a, b \in DOMAIN req :
        /\ a # b
        /\ Endpoint(a) = "orders" /\ Endpoint(b) = "orders"
        /\ Sent(a, 200) /\ Len(req[a].received) = 3
        /\ req[b].pc = "page" /\ req[b].calls = <<1, 2>>
        /\ Len(req[b].allOrders) = pageSize

\* C25: an order that is both a row of a spreadsheet of GET /export and a
\* row of the dashboard's table has the same date and the same amount in
\* both: the paid date before the order date, `total` before `totalAmount`.
C25_SamePrecedence ==
    \A r \in DOMAIN req :
        (Endpoint(r) = "export" /\ Done(r) /\ req[r].res.kind = "xlsx") =>
            \A i \in DOMAIN req[r].res.rows :
                \A j \in DOMAIN renderTableView(dash) :
                    req[r].res.rows[i].OrderNumber = renderTableView(dash)[j].orderNumber =>
                        /\ req[r].res.rows[i].OrderDate = renderTableView(dash)[j].date
                        /\ req[r].res.rows[i].TotalAmount = renderTableView(dash)[j].amount

LeapYear(y) == (y % 4 = 0 /\ y % 100 # 0) \/ y % 400 = 0

DaysOfMonth(y, m) ==
    IF m = 2 THEN (IF LeapYear(y) THEN 29 ELSE 28)
    ELSE IF m \in {4, 6, 9, 11} THEN 30 ELSE 31

\* s is Y-MM-DD with a month of the year and a day of that month.
NamesRealDate(s) ==
    /\ MatchesCanonical(s) \/ HasLooseDateShape(s)
    /\ NumAt(s, Len(s) - 4, Len(s) - 3) \in 1..12
    /\ NumAt(s, Len(s) - 1, Len(s))
           \in 1..DaysOfMonth(NumAt(s, 1, Len(s) - 6), NumAt(s, Len(s) - 4, Len(s) - 3))

\* C26: the date formatDate gave for a request's `from` names a real day: a
\* month from 01 to 12 and a day that month has.  A `from` such as 2024-13-45
\* is rejected and not made the start date of the upstream request.
C26_ValidCalendarDate ==
    \A r \in DOMAIN req :
        Normalized(r) => NamesRealDate(req[r].startDate.v)

\* What holds of C26: the date formatDate computes from a text that is not
\* of the pattern names a real day.
ComputedDatesReal ==
    \A r \in DOMAIN req :
        (Normalized(r) /\ ~MatchesCanonical(req[r].query.from.v)) =>
            NamesRealDate(req[r].startDate.v)

\* C27: every row of every spreadsheet of GET /export has the text
\* "Missing" as its GuestCount, and none a number.
C27_GuestCountMissing ==
    \A r \in DOMAIN req :
        (Endpoint(r) = "export" /\ Done(r) /\ req[r].res.kind = "xlsx") =>
            \A i \in DOMAIN req[r].res.rows :
                /\ req[r].res.rows[i].GuestCount = Text(<<"M", "i", "s", "s", "i", "n", "g">>)
                /\ req[r].res.rows[i].GuestCount.t # "number"

\* A spreadsheet has the rows of an order with guest count 0 and of an order
\* with none; the upstream's answer also had an order with guest count 4.
C27_Witness ==
    \E r \in DOMAIN req :
        /\ Endpoint(r) = "export" /\ Done(r) /\ req[r].res.kind = "xlsx"
        /\ req[r].received[1].n >= 8
        /\ \E i, j \in DOMAIN req[r].res.rows :
               /\ req[r].res.rows[i].OrderNumber = Order(7).orderNumber
               /\ Order(7).guestCount = Num(0)
               /\ req[r].res.rows[j].OrderNumber = Order(1).orderNumber
               /\ Order(1).guestCount = Undefined
        /\ Order(8).guestCount = Num(4)

\* This step is the user typing in the search box or changing the selected
\* associates: a step that runs applyFilters and is no click on a header.
FiltersChanged ==
    \/ dash'.orderSearchInput # dash.orderSearchInput
    \/ dash'.selectedAssociates # dash.selectedAssociates

\* C28: typing in the search box or changing the selected associates leaves
\* the sort field and the sort direction as they were.
C28_FiltersKeepSort ==
    [][FiltersChanged => dash'.sortConfig = dash.sortConfig]_vars

\* The names whose checkbox is checked.
CheckedNames ==
    {dash.associateOptions[i].value :
         i \in {j \in DOMAIN dash.associateOptions : dash.associateOptions[j].checked}}

\* The associate names of the loaded orders.
NamesLoaded == Elements(LoadedNames(dash.orders))

\* C29: the selected associates of the dashboard are the names of the
\* checked checkboxes, and are names of associates of the loaded orders.
C29_SelectionMatchesCheckboxes ==
    /\ Elements(dash.selectedAssociates) = CheckedNames
    /\ Elements(dash.selectedAssociates) \subseteq NamesLoaded

\* C30: when no load of the dashboard is in flight and the load invoked
\* last was answered with orders, state.orders is the result of that load;
\* and isLoading is false only when no load is in flight.
C30_NewestLoadShown ==
    /\ (dash.fetches = << >> /\ dash.track.ended = "ok") => dash.track.shown = "newest"
    /\ ~dash.isLoading => dash.fetches = << >>

=============================================================================
